---------------------------- MODULE Spec2Model ----------------------------
(***************************************************************************)
(* Model of the state tracking and confluence filtering core of            *)
(* Tradealerts: StateManager (state_manager.py), the inbound pipeline's    *)
(* update_system_state (main.py) and ConfluenceRulesEngine                 *)
(* (confluence_rules.py).                                                  *)
(*                                                                         *)
(* Conventions.  Python None is the string None for text columns and       *)
(* arguments, and the empty tuple for timestamps (a timestamp t is <<t>>). *)
(* A SQL table is the sequence of its rows in rowid order.  A Python dict  *)
(* is a TLA+ function; d.get(k, default) is Get(d, k, default).            *)
(***************************************************************************)
EXTENDS Integers, Sequences, FiniteSets, TLC

VARIABLES
    timeframe_states,   \* table timeframe_states (state_manager.py:39-54)
    state_history,      \* table state_history (state_manager.py:57-68)
    system_metadata,    \* table system_metadata (state_manager.py:71-77)
    clock,              \* wall clock in seconds (CURRENT_TIMESTAMP / datetime.now())
    lastOp,             \* the call that produced this state, with its result
    phase,              \* recovery scenario: "run", "wiped", "recovered"
    snapshot,           \* get_all_states taken right before the wipe
    rules,              \* ConfluenceRulesEngine.rules
    parsed_data,        \* the event handed to evaluate_alert
    current_states,     \* the snapshot handed to evaluate_alert
    evalResult,         \* what the last evaluate_alert returned, or "none"
    db_tables,          \* the tables of the database file market_states.db
    alert_toggles,      \* table alert_toggles: (symbol, tag) -> enabled
    lastToggle,         \* the last AlertToggleManager call, with its result
    lastAlert,          \* what receive_sms did with the last event
    nextHigherCalls,    \* the get_next_higher_timeframe calls made, with results
    calls,              \* update_timeframe_state calls in flight, per caller
    arrivals,           \* the update_timeframe_state calls in their order of arrival
    everHeld,           \* every (symbol, timeframe, indicator, status) a row has held
    rules_file,         \* confluence_rules.json: <<>> when missing, else <<rule list>>
    lastRuleOp,         \* the last rule endpoint called, with its outcome
    lastJob             \* the last pass of the daily summary scheduler

vars == <<timeframe_states, state_history, system_metadata, clock, lastOp,
          phase, snapshot, rules, parsed_data, current_states, evalResult,
          db_tables, alert_toggles, lastToggle, lastAlert, nextHigherCalls,
          calls, arrivals, everHeld, rules_file, lastRuleOp, lastJob>>

storeVars == <<timeframe_states, state_history, system_metadata, clock, lastOp>>
recoveryVars == <<phase, snapshot>>
engineVars == <<rules, parsed_data, current_states, evalResult>>
toggleVars == <<db_tables, alert_toggles, lastToggle>>
pipelineVars == <<lastAlert>>
hierarchyVars == <<nextHigherCalls>>
concVars == <<calls, arrivals, everHeld>>
configVars == <<rules_file, lastRuleOp>>
jobVars == <<lastJob>>

----------------------------------------------------------------------------
(* Bounds *)

MaxHistory == 2
MaxClock == 1
MaxRules == 2
MaxCalls == 3
MaxArrivals == 2

----------------------------------------------------------------------------
(* Values and string helpers *)

None == "None"

NoTime == <<>>

TIMEFRAME_HIERARCHY == <<"1MIN", "5MIN", "15MIN", "30MIN", "1HR", "2HR", "4HR", "1DAY">>

\* str.upper() on the strings the model uses
Upper(s) ==
    CASE s = "spy" -> "SPY"
      [] s = "5min" -> "5MIN"
      [] s = "15min" -> "15MIN"
      [] s = "1min" -> "1MIN"
      [] s = "30min" -> "30MIN"
      [] s = "1hr" -> "1HR"
      [] s = "2hr" -> "2HR"
      [] s = "4hr" -> "4HR"
      [] s = "bullish" -> "BULLISH"
      [] s = "bearish" -> "BEARISH"
      [] s = "sideways" -> "SIDEWAYS"
      [] s = "unknown" -> "UNKNOWN"
      [] s = "bogus" -> "BOGUS"
      [] s = "1day" -> "1DAY"
      [] s = "qqq" -> "QQQ"
      [] s = "c5" -> "C5"
      [] s = "Call5" -> "CALL5"
      [] s = "call1h" -> "CALL1H"
      [] s = "newtag" -> "NEWTAG"
      [] OTHER -> s

\* str.lower() on the strings the model uses
Lower(s) ==
    CASE s = "EMA" -> "ema"
      [] s = "MACD" -> "macd"
      [] s = "RSI" -> "rsi"
      [] OTHER -> s

\* dict.get(k, default)
Get(d, k, default) == IF k \in DOMAIN d THEN d[k] ELSE default

Min(S) == CHOOSE x \in S : \A y \in S : x <= y

IsPrefix(s, t) == Len(s) <= Len(t) /\ SubSeq(t, 1, Len(s)) = s

----------------------------------------------------------------------------
(* Inputs of the State Service calls *)

\* the arguments of the valid direct calls, in mixed case
ValidCalls ==
    [symbol : {"spy"}, timeframe : {"5min", "15MIN"}, crossover_type : {"ema", "MACD"},
     direction : {"bullish", "BEARISH"}, price : {"450.0"}]

\* calls with an indicator or a direction the validation rejects
InvalidCalls ==
    {[symbol |-> "SPY", timeframe |-> "5MIN", crossover_type |-> "rsi",
      direction |-> "bullish", price |-> "450.0"],
     [symbol |-> "SPY", timeframe |-> "5MIN", crossover_type |-> "ema",
      direction |-> "sideways", price |-> "450.0"]}

Symbols == {"spy"}
Prices == {"450.0"}
MetadataKeys == {"last_daily_summary_date"}
MetadataValues == {"2026-01-05"}

----------------------------------------------------------------------------
(* StateManager: SQL helpers *)

\* rowids of the rows WHERE symbol = ? AND timeframe = ?
RowsWhere(rows, symbol, timeframe) ==
    {i \in DOMAIN rows : rows[i].symbol = symbol /\ rows[i].timeframe = timeframe}

\* rowids of the rows WHERE symbol = ?
RowsOfSymbol(rows, symbol) == {i \in DOMAIN rows : rows[i].symbol = symbol}

\* INSERT INTO timeframe_states under UNIQUE(symbol, timeframe):
\* ok = FALSE stands for sqlite3.IntegrityError
InsertTimeframeState(rows, row) ==
    IF RowsWhere(rows, row.symbol, row.timeframe) # {}
    THEN [ok |-> FALSE, rows |-> rows]
    ELSE [ok |-> TRUE, rows |-> Append(rows, row)]

\* the row written by the INSERT of a new record
NewRow(symbol, timeframe, crossover_type, direction, price, now) ==
    [symbol |-> symbol, timeframe |-> timeframe,
     ema_status |-> IF crossover_type = "ema" THEN direction ELSE "UNKNOWN",
     macd_status |-> IF crossover_type = "ema" THEN "UNKNOWN" ELSE direction,
     last_ema_update |-> IF crossover_type = "ema" THEN now ELSE NoTime,
     last_macd_update |-> IF crossover_type = "macd" THEN now ELSE NoTime,
     last_ema_price |-> IF crossover_type = "ema" THEN price ELSE None,
     last_macd_price |-> IF crossover_type = "ema" THEN None ELSE price]

\* mutant of UpdatedRow: the row is replaced (INSERT OR REPLACE), which resets
\* the other indicator
UpdatedRow_Replace(row, crossover_type, direction, price, now) ==
    NewRow(row.symbol, row.timeframe, crossover_type, direction, price, now)

\* the row written by the UPDATE of an existing record
UpdatedRow(row, crossover_type, direction, price, now) ==
    IF crossover_type = "ema"
    THEN [row EXCEPT !.ema_status = direction,
                     !.last_ema_update = now,
                     !.last_ema_price = price,
                     !.macd_status = row.macd_status,
                     !.last_macd_price = row.last_macd_price]
    ELSE [row EXCEPT !.macd_status = direction,
                     !.last_macd_update = now,
                     !.last_macd_price = price,
                     !.ema_status = row.ema_status,
                     !.last_ema_price = row.last_ema_price]

\* mutant of log_state_change: the record names the old status as the new one
log_state_change_OldAsNew(hist, symbol, timeframe, crossover_type, old_status, new_status, price, now, hist_ok) ==
    IF hist_ok
    THEN Append(hist, [symbol |-> Upper(symbol), timeframe |-> Upper(timeframe),
                       crossover_type |-> Lower(crossover_type),
                       old_status |-> old_status, new_status |-> old_status,
                       price |-> price, timestamp |-> now])
    ELSE hist

\* mutant of log_state_change: the latest record of the same key is overwritten
\* instead of a new one being appended
log_state_change_Overwrite(hist, symbol, timeframe, crossover_type, old_status, new_status, price, now, hist_ok) ==
    LET rec == [symbol |-> Upper(symbol), timeframe |-> Upper(timeframe),
                crossover_type |-> Lower(crossover_type),
                old_status |-> old_status, new_status |-> new_status,
                price |-> price, timestamp |-> now]
    IN  IF hist # <<>> /\ hist[Len(hist)].symbol = rec.symbol
                       /\ hist[Len(hist)].timeframe = rec.timeframe
                       /\ hist[Len(hist)].crossover_type = rec.crossover_type
        THEN [hist EXCEPT ![Len(hist)] = rec]
        ELSE Append(hist, rec)

\* log_state_change: one INSERT INTO state_history; a backing-store fault
\* (hist_ok = FALSE) is caught and logged, the record is lost
log_state_change(hist, symbol, timeframe, crossover_type, old_status, new_status, price, now, hist_ok) ==
    IF hist_ok
    THEN Append(hist, [symbol |-> Upper(symbol), timeframe |-> Upper(timeframe),
                       crossover_type |-> Lower(crossover_type),
                       old_status |-> old_status, new_status |-> new_status,
                       price |-> price, timestamp |-> now])
    ELSE hist

\* update_timeframe_state: returns the tables after the call and the result
\* mutant of update_timeframe_state: the indicator and the direction are not
\* validated
update_timeframe_state_NoValidate(rows, hist, now, symbol0, timeframe0, crossover_type0, direction0, price, hist_ok) ==
    LET symbol == Upper(symbol0)
        timeframe == Upper(timeframe0)
        crossover_type == Lower(crossover_type0)
        direction == Upper(direction0)
        found == RowsWhere(rows, symbol, timeframe)
    IN  IF symbol0 = None \/ timeframe0 = None
        THEN \* None.upper() raises AttributeError, caught at the method boundary
             [rows |-> rows, hist |-> hist, ret |-> FALSE]
        ELSE IF found # {}
        THEN LET result == rows[Min(found)]
                 old_status == IF crossover_type = "ema" THEN result.ema_status
                               ELSE result.macd_status
                 written == UpdatedRow(result, crossover_type, direction, price, now)
                 rows2 == [i \in DOMAIN rows |->
                             IF i \in found
                             THEN [rows[i] EXCEPT
                                     !.ema_status = written.ema_status,
                                     !.macd_status = written.macd_status,
                                     !.last_ema_update =
                                         IF crossover_type = "ema"
                                         THEN written.last_ema_update ELSE @,
                                     !.last_macd_update =
                                         IF crossover_type = "macd"
                                         THEN written.last_macd_update ELSE @,
                                     !.last_ema_price = written.last_ema_price,
                                     !.last_macd_price = written.last_macd_price]
                             ELSE rows[i]]
             IN  [rows |-> rows2,
                  hist |-> log_state_change(hist, symbol, timeframe, crossover_type,
                                            old_status, direction, price, now, hist_ok),
                  ret |-> TRUE]
        ELSE LET ins == InsertTimeframeState(rows,
                            NewRow(symbol, timeframe, crossover_type, direction,
                                   price, now))
             IN  IF ~ins.ok
                 THEN [rows |-> rows, hist |-> hist, ret |-> FALSE]
                 ELSE [rows |-> ins.rows,
                       hist |-> log_state_change(hist, symbol, timeframe, crossover_type,
                                                 "UNKNOWN", direction, price, now, hist_ok),
                       ret |-> TRUE]

update_timeframe_state(rows, hist, now, symbol0, timeframe0, crossover_type0, direction0, price, hist_ok) ==
    LET symbol == Upper(symbol0)
        timeframe == Upper(timeframe0)
        crossover_type == Lower(crossover_type0)
        direction == Upper(direction0)
        found == RowsWhere(rows, symbol, timeframe)
    IN  IF symbol0 = None \/ timeframe0 = None
        THEN \* None.upper() raises AttributeError, caught at the method boundary
             [rows |-> rows, hist |-> hist, ret |-> FALSE]
        ELSE IF crossover_type \notin {"ema", "macd"}
        THEN [rows |-> rows, hist |-> hist, ret |-> FALSE]
        ELSE IF direction \notin {"BULLISH", "BEARISH"}
        THEN [rows |-> rows, hist |-> hist, ret |-> FALSE]
        ELSE IF found # {}
        THEN LET result == rows[Min(found)]
                 old_status == IF crossover_type = "ema" THEN result.ema_status
                               ELSE result.macd_status
                 written == UpdatedRow(result, crossover_type, direction, price, now)
                 rows2 == [i \in DOMAIN rows |->
                             IF i \in found
                             THEN [rows[i] EXCEPT
                                     !.ema_status = written.ema_status,
                                     !.macd_status = written.macd_status,
                                     !.last_ema_update =
                                         IF crossover_type = "ema"
                                         THEN written.last_ema_update ELSE @,
                                     !.last_macd_update =
                                         IF crossover_type = "macd"
                                         THEN written.last_macd_update ELSE @,
                                     !.last_ema_price = written.last_ema_price,
                                     !.last_macd_price = written.last_macd_price]
                             ELSE rows[i]]
             IN  [rows |-> rows2,
                  hist |-> log_state_change(hist, symbol, timeframe, crossover_type,
                                            old_status, direction, price, now, hist_ok),
                  ret |-> TRUE]
        ELSE LET ins == InsertTimeframeState(rows,
                            NewRow(symbol, timeframe, crossover_type, direction,
                                   price, now))
             IN  IF ~ins.ok
                 THEN [rows |-> rows, hist |-> hist, ret |-> FALSE]
                 ELSE [rows |-> ins.rows,
                       hist |-> log_state_change(hist, symbol, timeframe, crossover_type,
                                                 "UNKNOWN", direction, price, now, hist_ok),
                       ret |-> TRUE]

\* mutant of get_timeframe_state: no row is ever found
get_timeframe_state_None(rows, symbol0, timeframe0) == <<>>

\* get_timeframe_state: <<row>> for the row of (symbol, timeframe), <<>> for None
get_timeframe_state(rows, symbol0, timeframe0) ==
    LET found == RowsWhere(rows, Upper(symbol0), Upper(timeframe0))
    IN  IF symbol0 = None \/ timeframe0 = None THEN <<>>
        ELSE IF found # {} THEN <<rows[Min(found)]>> ELSE <<>>

\* get_all_states: dict timeframe -> state of the symbol's rows; a later row of
\* the result set overwrites an earlier one with the same timeframe
get_all_states(rows, symbol0) ==
    LET mine == RowsOfSymbol(rows, Upper(symbol0))
        Last(tf) == CHOOSE i \in mine :
                        /\ rows[i].timeframe = tf
                        /\ \A j \in mine : rows[j].timeframe = tf => j <= i
    IN  [tf \in {rows[i].timeframe : i \in mine} |-> rows[Last(tf)]]

----------------------------------------------------------------------------
(* StateManager: ensure_symbol_exists, bootstrap_from_history, metadata *)

\* mutant of ensure_symbol_exists: the 5MIN row of the symbol is replaced by the
\* placeholder
ensure_symbol_exists_Replace(rows, symbol0) ==
    LET found == RowsWhere(rows, Upper(symbol0), "5MIN")
    IN  IF found # {}
        THEN [i \in DOMAIN rows |->
                IF i \in found
                THEN [rows[i] EXCEPT !.ema_status = "UNKNOWN", !.macd_status = "UNKNOWN"]
                ELSE rows[i]]
        ELSE LET ins == InsertTimeframeState(rows,
                            [symbol |-> Upper(symbol0), timeframe |-> "5MIN",
                             ema_status |-> "UNKNOWN", macd_status |-> "UNKNOWN",
                             last_ema_update |-> NoTime, last_macd_update |-> NoTime,
                             last_ema_price |-> None, last_macd_price |-> None])
             IN  IF ins.ok THEN ins.rows ELSE rows

\* ensure_symbol_exists: a placeholder row ('5MIN', UNKNOWN, UNKNOWN) when the
\* symbol has no row at all
ensure_symbol_exists(rows, symbol0) ==
    IF RowsOfSymbol(rows, Upper(symbol0)) # {}
    THEN rows
    ELSE LET ins == InsertTimeframeState(rows,
                        [symbol |-> Upper(symbol0), timeframe |-> "5MIN",
                         ema_status |-> "UNKNOWN", macd_status |-> "UNKNOWN",
                         last_ema_update |-> NoTime, last_macd_update |-> NoTime,
                         last_ema_price |-> None, last_macd_price |-> None])
         IN  IF ins.ok THEN ins.rows ELSE rows

\* SELECT DISTINCT symbol, timeframe FROM state_history, in order of first
\* appearance
RECURSIVE DistinctPairs(_)
DistinctPairs(hist) ==
    IF hist = <<>> THEN <<>>
    ELSE LET front == DistinctPairs(SubSeq(hist, 1, Len(hist) - 1))
             h == hist[Len(hist)]
             pair == <<h.symbol, h.timeframe>>
         IN  IF \E i \in DOMAIN front : front[i] = pair THEN front
             ELSE Append(front, pair)

\* history ids of the records of (symbol, timeframe, crossover_type)
HistoryOf(hist, symbol, timeframe, crossover_type) ==
    {i \in DOMAIN hist : /\ hist[i].symbol = symbol
                         /\ hist[i].timeframe = timeframe
                         /\ hist[i].crossover_type = crossover_type}

\* the ids ORDER BY timestamp DESC LIMIT 1 may return: every record of the key
\* with the greatest timestamp (SQL leaves the order of equal timestamps open)
LatestCandidates(hist, symbol, timeframe, crossover_type) ==
    LET mine == HistoryOf(hist, symbol, timeframe, crossover_type)
    IN  {i \in mine : \A j \in mine : hist[j].timestamp[1] <= hist[i].timestamp[1]}

\* the keys bootstrap_from_history queries
BootstrapKeys(hist) ==
    {<<h.symbol, h.timeframe>> : h \in {hist[i] : i \in DOMAIN hist}} \X {"ema", "macd"}

\* the possible outcomes of the LIMIT 1 queries: per key the id returned, 0 for
\* no row
LatestPicks(hist) ==
    {pick \in [BootstrapKeys(hist) -> 0 .. Len(hist)] :
        \A k \in BootstrapKeys(hist) :
            LET c == LatestCandidates(hist, k[1][1], k[1][2], k[2])
            IN  IF c = {} THEN pick[k] = 0 ELSE pick[k] \in c}

\* one iteration of the loop over pairs
BootstrapPair(rows, hist, pair, pick) ==
    LET symbol == pair[1]
        timeframe == pair[2]
        e == pick[<<pair, "ema">>]
        m == pick[<<pair, "macd">>]
        ema_status == IF e # 0 THEN hist[e].new_status ELSE "UNKNOWN"
        ema_price == IF e # 0 THEN hist[e].price ELSE None
        ema_ts == IF e # 0 THEN hist[e].timestamp ELSE NoTime
        macd_status == IF m # 0 THEN hist[m].new_status ELSE "UNKNOWN"
        macd_price == IF m # 0 THEN hist[m].price ELSE None
        macd_ts == IF m # 0 THEN hist[m].timestamp ELSE NoTime
        found == RowsWhere(rows, Upper(symbol), Upper(timeframe))
    IN  IF found # {}
        THEN [i \in DOMAIN rows |->
                IF i \in found
                THEN [rows[i] EXCEPT
                        !.ema_status = IF e # 0 THEN ema_status ELSE @,
                        !.last_ema_update = IF e # 0 THEN ema_ts ELSE @,
                        !.last_ema_price = IF e # 0 THEN ema_price ELSE @,
                        !.macd_status = IF m # 0 THEN macd_status ELSE @,
                        !.last_macd_update = IF m # 0 THEN macd_ts ELSE @,
                        !.last_macd_price = IF m # 0 THEN macd_price ELSE @]
                ELSE rows[i]]
        ELSE InsertTimeframeState(rows,
                [symbol |-> Upper(symbol), timeframe |-> Upper(timeframe),
                 ema_status |-> ema_status, macd_status |-> macd_status,
                 last_ema_update |-> ema_ts, last_macd_update |-> macd_ts,
                 last_ema_price |-> ema_price, last_macd_price |-> macd_price]).rows

RECURSIVE BootstrapLoop(_, _, _, _)
BootstrapLoop(rows, hist, pairs, pick) ==
    IF pairs = <<>> THEN rows
    ELSE BootstrapLoop(BootstrapPair(rows, hist, Head(pairs), pick), hist,
                       Tail(pairs), pick)

\* mutant of bootstrap_from_history: the table is emptied and rebuilt
bootstrap_from_history_Rebuild(rows, hist, pick) ==
    [rows |-> BootstrapLoop(<<>>, hist, DistinctPairs(hist), pick), hist |-> hist]

\* mutant of bootstrap_from_history: the restored state is logged as a change
bootstrap_from_history_Logged(rows, hist, pick) ==
    [rows |-> BootstrapLoop(rows, hist, DistinctPairs(hist), pick),
     hist |-> IF hist = <<>> THEN hist ELSE Append(hist, hist[Len(hist)])]

\* bootstrap_from_history: rebuild timeframe_states from the latest history
\* record of every key; reads and leaves state_history
bootstrap_from_history(rows, hist, pick) ==
    [rows |-> BootstrapLoop(rows, hist, DistinctPairs(hist), pick), hist |-> hist]

\* set_metadata: INSERT OR REPLACE INTO system_metadata
set_metadata(meta, key, value) ==
    [k \in DOMAIN meta \cup {key} |-> IF k = key THEN value ELSE meta[k]]

\* get_metadata: the value of the key, None without a row or on a fault
get_metadata(meta, key, db_ok) ==
    IF db_ok THEN Get(meta, key, None) ELSE None

\* the days the scheduler wakes on and the ways send_daily_ema_summaries ends:
\* summaries posted, suppressed by the time filter, a post that failed (logged),
\* an exception
SummaryDays == {"2025-01-06", "2025-01-07"}

SendOutcomes == {"sent", "filtered", "post_failed", "raised"}

\* mutant of DailySummaryRun: the job makes sure SPY has a row before it reads
DailySummaryRun_EnsuresSymbol(meta, rows, hist, today_str, send, read_ok, write_ok) ==
    IF get_metadata(meta, "last_daily_summary_date", read_ok) = today_str
    THEN [meta |-> meta, rows |-> ensure_symbol_exists(rows, "SPY"), hist |-> hist,
          outcome |-> "skipped"]
    ELSE IF send = "raised"
    THEN [meta |-> meta, rows |-> ensure_symbol_exists(rows, "SPY"), hist |-> hist,
          outcome |-> "failed"]
    ELSE [meta |-> IF write_ok THEN set_metadata(meta, "last_daily_summary_date", today_str)
                   ELSE meta,
          rows |-> ensure_symbol_exists(rows, "SPY"), hist |-> hist, outcome |-> send]

\* one wake-up of _daily_scheduler_task: skip when last_daily_summary_date is
\* today; else send_daily_ema_summaries, which reads get_all_states, and, unless
\* it raised, set_metadata('last_daily_summary_date', today_str)
DailySummaryRun(meta, rows, hist, today_str, send, read_ok, write_ok) ==
    IF get_metadata(meta, "last_daily_summary_date", read_ok) = today_str
    THEN [meta |-> meta, rows |-> rows, hist |-> hist, outcome |-> "skipped"]
    ELSE IF send = "raised"
    THEN [meta |-> meta, rows |-> rows, hist |-> hist, outcome |-> "failed"]
    ELSE [meta |-> IF write_ok THEN set_metadata(meta, "last_daily_summary_date", today_str)
                   ELSE meta,
          rows |-> rows, hist |-> hist, outcome |-> send]

----------------------------------------------------------------------------
(* Inbound pipeline: update_system_state (main.py) *)

\* the events parse_sms_data hands on
ParsedEvents ==
    LET Base(action) == [symbol : {"SPY"}, timeframe : {"5MIN", "15MIN"},
                         action : {action}, price : Prices]
    IN  {b @@ ("macd_direction" :> d) :
            b \in Base("macd_crossover"), d \in {"bullish", "bearish"}}
        \cup
        {b @@ ("ema_direction" :> d) :
            b \in Base("moving_average_crossover"), d \in {"bullish", "bearish"}}
        \cup
        {[symbol |-> "SPY", timeframe |-> "5MIN", action |-> "trade_signal",
          price |-> "450.0"],
         [symbol |-> "SPY", timeframe |-> None, action |-> "macd_crossover",
          price |-> "450.0", macd_direction |-> "bullish"]}

\* the crossover type update_system_state records for an event, or None
EventCrossoverType(pd) ==
    CASE Get(pd, "action", None) = "macd_crossover" -> "macd"
      [] Get(pd, "action", None) = "moving_average_crossover" -> "ema"
      [] OTHER -> None

\* the direction update_system_state reads for an event
EventDirection(pd) ==
    CASE Get(pd, "action", None) = "macd_crossover" -> Get(pd, "macd_direction", "unknown")
      [] Get(pd, "action", None) = "moving_average_crossover" ->
            Get(pd, "ema_direction", "unknown")
      [] OTHER -> "unknown"

\* mutant of update_system_state: the stored status is not compared
update_system_state_NoCompare(rows, hist, now, pd, hist_ok) ==
    IF Get(pd, "timeframe", None) = None
       \/ Get(pd, "action", None) \notin {"macd_crossover", "moving_average_crossover"}
    THEN [rows |-> rows, hist |-> hist, ret |-> FALSE, called |-> FALSE]
    ELSE update_timeframe_state(rows, hist, now, Get(pd, "symbol", "SPY"),
                                Get(pd, "timeframe", None),
                                IF pd.action = "macd_crossover" THEN "macd" ELSE "ema",
                                IF pd.action = "macd_crossover"
                                THEN Get(pd, "macd_direction", "unknown")
                                ELSE Get(pd, "ema_direction", "unknown"),
                                Get(pd, "price", None), hist_ok) @@ ("called" :> TRUE)

\* update_system_state: record the event only when the stored status differs;
\* called is TRUE when update_timeframe_state was called
update_system_state(rows, hist, now, pd, hist_ok) ==
    LET symbol == Get(pd, "symbol", "SPY")
        timeframe == Get(pd, "timeframe", None)
        price == Get(pd, "price", None)
        skip == [rows |-> rows, hist |-> hist, ret |-> FALSE, called |-> FALSE]
        current_state == get_timeframe_state(rows, symbol, timeframe)
        crossover_type == EventCrossoverType(pd)
        direction == EventDirection(pd)
        current_status ==
            IF current_state = <<>> THEN "UNKNOWN"
            ELSE IF crossover_type = "macd" THEN current_state[1].macd_status
            ELSE current_state[1].ema_status
    IN  IF timeframe = None THEN skip
        ELSE IF crossover_type = None THEN skip
        ELSE IF direction \notin {"bullish", "bearish"} THEN skip
        ELSE IF current_status # Upper(direction)
        THEN update_timeframe_state(rows, hist, now, symbol, timeframe, crossover_type,
                                    direction, price, hist_ok) @@ ("called" :> TRUE)
        ELSE skip

----------------------------------------------------------------------------
(* StateManager.get_next_higher_timeframe *)

\* list.index
IndexOf(seq, x) == Min({i \in DOMAIN seq : seq[i] = x})

\* mutant of get_next_higher_timeframe: the highest timeframe is its own successor
get_next_higher_timeframe_Clamp(current_timeframe0) ==
    LET current_timeframe == Upper(current_timeframe0)
    IN  IF \A i \in DOMAIN TIMEFRAME_HIERARCHY : TIMEFRAME_HIERARCHY[i] # current_timeframe
        THEN current_timeframe
        ELSE LET current_index == IndexOf(TIMEFRAME_HIERARCHY, current_timeframe)
             IN  IF current_index < Len(TIMEFRAME_HIERARCHY)
                 THEN TIMEFRAME_HIERARCHY[current_index + 1]
                 ELSE current_timeframe

\* get_next_higher_timeframe: the label after current_timeframe, or None
get_next_higher_timeframe(current_timeframe0) ==
    LET current_timeframe == Upper(current_timeframe0)
    IN  IF \A i \in DOMAIN TIMEFRAME_HIERARCHY : TIMEFRAME_HIERARCHY[i] # current_timeframe
        THEN None
        ELSE LET current_index == IndexOf(TIMEFRAME_HIERARCHY, current_timeframe)
             IN  IF current_index < Len(TIMEFRAME_HIERARCHY)
                 THEN TIMEFRAME_HIERARCHY[current_index + 1]
                 ELSE None

----------------------------------------------------------------------------
(* ConfluenceRulesEngine (confluence_rules.py) *)

Trigger(timeframe, crossover_type, direction) ==
    [timeframe |-> timeframe, crossover_type |-> crossover_type, direction |-> direction]

Requirement(timeframe, check, must_be) ==
    [timeframe |-> timeframe, check |-> check, must_be |-> must_be]

Rule(name, enabled, trigger, requirements, action) ==
    [name |-> name, enabled |-> enabled, trigger |-> trigger,
     requirements |-> requirements, action |-> action]

\* the rule set create_default_rules writes
DefaultRules ==
    << Rule("MACD confluence with next higher EMA", TRUE, Trigger("any", "macd", "any"),
            <<Requirement("next_higher", "ema_status", "same_direction")>>, "ALLOW"),
       Rule("EMA confluence with next higher EMA", TRUE, Trigger("any", "ema", "any"),
            <<Requirement("next_higher", "ema_status", "same_direction")>>, "ALLOW"),
       Rule("Block alerts without confluence", FALSE, Trigger("any", "any", "any"),
            <<>>, "BLOCK") >>

\* mutant of create_default_rules: the defaults are loaded and not written
create_default_rules_NoWrite(file, ok) ==
    IF ok THEN [rules |-> DefaultRules, file |-> file]
    ELSE [rules |-> <<>>, file |-> file]

\* create_default_rules: write the defaults to the rules file and load them; on
\* a failing write the engine has no rules. The file is <<>> while it does not
\* exist and <<list>> with the rule list json.dump wrote (booleans, strings
\* and lists, which json.load gives back as they were)
create_default_rules(file, ok) ==
    IF ok THEN [rules |-> DefaultRules, file |-> <<DefaultRules>>]
    ELSE [rules |-> <<>>, file |-> file]

\* load_rules: the list under "rules" of an existing file, the defaults when
\* there is no file, no rules when reading raises
load_rules(file, ok) ==
    IF file # <<>>
    THEN IF ok THEN [rules |-> file[1], file |-> file]
         ELSE [rules |-> <<>>, file |-> file]
    ELSE create_default_rules(file, ok)

\* reload_rules
reload_rules(file, ok) == load_rules(file, ok)

\* 'macd confluence with next higher ema' in name.lower(), over the rule names
\* of the model
IsMacdConfluenceName(name) ==
    name \in {"MACD confluence with next higher EMA",
              "Copy of MACD Confluence With Next Higher EMA"}

\* mutant of StartupLoad: the rules are loaded as the file holds them
StartupLoad_AsStored(file, ok) ==
    load_rules(file, ok)

\* the start-up hook: load_rules, then enable in memory every rule named as the
\* MACD confluence rule; the save_rules() it then calls is not a method of the
\* engine, the AttributeError is caught and logged
StartupLoad(file, ok) ==
    LET r == load_rules(file, ok)
    IN  [rules |-> [i \in DOMAIN r.rules |->
                       IF IsMacdConfluenceName(r.rules[i].name)
                       THEN [r.rules[i] EXCEPT !.enabled = TRUE]
                       ELSE r.rules[i]],
         file |-> r.file]

\* POST /confluence/rules/{rule_index}/enable and /disable: a valid index sets
\* the flag of the rule in memory and calls save_rules(), which is not a method
\* of the engine: the AttributeError ends the request (HTTP 500) and nothing is
\* written; any other index is answered 404
SetRuleEnabled(rs, file, rule_index, value) ==
    IF 0 <= rule_index /\ rule_index < Len(rs)
    THEN [rules |-> [rs EXCEPT ![rule_index + 1].enabled = value], file |-> file,
          status |-> "500"]
    ELSE [rules |-> rs, file |-> file, status |-> "404"]

enable_rule(rs, file, rule_index) == SetRuleEnabled(rs, file, rule_index, TRUE)

disable_rule(rs, file, rule_index) == SetRuleEnabled(rs, file, rule_index, FALSE)

\* the rules files found at start: none, the defaults, the defaults with the
\* MACD rule disabled, the defaults followed by a disabled copy of the MACD
\* rule under another name, one rule, an empty list
InitialRuleFiles ==
    {<<>>, <<DefaultRules>>,
     <<[DefaultRules EXCEPT ![1].enabled = FALSE]>>,
     <<Append(DefaultRules,
              [DefaultRules[1] EXCEPT !.name = "Copy of MACD Confluence With Next Higher EMA",
                                      !.enabled = FALSE])>>,
     <<SubSeq(DefaultRules, 2, 2)>>,
     << <<>> >>}

\* the indexes the endpoints are called with
RuleIndexes == -1 .. 3

\* the rules a configuration file may hold: the defaults and variations of their
\* fields (enabled flag, literal and lower-case trigger fields, literal
\* requirement timeframes and values, several requirements, an unknown check,
\* a must_be of JSON null, absent enabled / action keys)
RuleCatalogue ==
    {DefaultRules[i] : i \in DOMAIN DefaultRules}
    \cup
    {Rule("Block all", TRUE, Trigger("any", "any", "any"), <<>>, "BLOCK"),
     Rule("Allow all", TRUE, Trigger("any", "any", "any"), <<>>, "ALLOW"),
     Rule("Block bullish", TRUE, Trigger("any", "any", "bullish"), <<>>, "BLOCK"),
     Rule("Bullish 5MIN EMA needs 15MIN MACD", TRUE, Trigger("5MIN", "ema", "BULLISH"),
          <<Requirement("15MIN", "macd_status", "bullish")>>, "ALLOW"),
     Rule("Block EMA against 15MIN MACD", TRUE, Trigger("any", "ema", "any"),
          <<Requirement("next_higher", "ema_status", "same_direction"),
            Requirement("15MIN", "macd_status", "BEARISH")>>, "BLOCK"),
     Rule("EMA confluence with next higher EMA", FALSE, Trigger("any", "ema", "any"),
          <<Requirement("next_higher", "ema_status", "same_direction")>>, "ALLOW"),
     Rule("MACD needs 15MIN RSI", TRUE, Trigger("any", "macd", "any"),
          <<Requirement("15MIN", "rsi_status", "bullish")>>, "ALLOW"),
     Rule("EMA needs 15MIN EMA, must_be null", TRUE, Trigger("any", "ema", "any"),
          <<Requirement("15MIN", "ema_status", None)>>, "ALLOW"),
     [name |-> "Daily", trigger |-> Trigger("1DAY", "any", "any"), requirements |-> <<>>]}

\* the default rule list as written, and with its catch-all rule switched on
DefaultRuleSets ==
    {DefaultRules, [DefaultRules EXCEPT ![3].enabled = TRUE]}

\* the rule lists load_rules may read: up to MaxRules catalogue rules
RuleLists ==
    UNION {[1 .. n -> RuleCatalogue] : n \in 0 .. MaxRules}

\* the events handed to evaluate_alert
EvalEvents ==
    LET Base(action) == [symbol : {"SPY"},
                         timeframe : {"5MIN", "5min", "4HR", "1DAY", "BOGUS"},
                         action : {action}]
    IN  {b @@ ("macd_direction" :> d) :
            b \in Base("macd_crossover"), d \in {"bullish", "bearish"}}
        \cup
        {b @@ ("ema_direction" :> d) :
            b \in Base("moving_average_crossover"), d \in {"bullish", "bearish"}}
        \cup Base("trade_signal")
        \cup {[symbol |-> "SPY", timeframe |-> None, action |-> "macd_crossover",
               macd_direction |-> "bullish"]}

\* the snapshots handed to evaluate_alert: no state, a state of the timeframe
\* above 5MIN, states of the highest timeframe and of a label outside the
\* hierarchy, or states of 5MIN and 15MIN after EMA events on both
EvalSnapshots ==
    {[tf \in {} |-> None]}
    \cup
    {[tf \in {"15MIN"} |-> [symbol |-> "SPY", timeframe |-> tf, ema_status |-> e,
                            macd_status |-> m]] :
        e \in {"BULLISH", "BEARISH", "UNKNOWN"}, m \in {"BULLISH", "BEARISH", "UNKNOWN"}}
    \cup
    {[tf \in {"1DAY", "BOGUS"} |-> [symbol |-> "SPY", timeframe |-> tf, ema_status |-> e,
                                    macd_status |-> e]] :
        e \in {"BULLISH", "BEARISH"}}
    \cup
    {[tf \in {"5MIN", "15MIN"} |->
        [symbol |-> "SPY", timeframe |-> tf,
         ema_status |-> IF tf = "5MIN" THEN e ELSE "BULLISH",
         macd_status |-> "UNKNOWN"]] :
        e \in {"BULLISH", "BEARISH"}}

\* parsed_data.get('timeframe', '').upper() raises AttributeError when the parser
\* left timeframe None
EventFaults(pd) == Get(pd, "timeframe", "") = None

\* the crossover type get_applicable_rules derives from the action
AlertCrossoverType(pd) ==
    CASE Get(pd, "action", "") = "macd_crossover" -> "macd"
      [] Get(pd, "action", "") = "moving_average_crossover" -> "ema"
      [] OTHER -> "unknown"

\* parsed_data.get('macd_direction', parsed_data.get('ema_direction', '')).upper()
AlertDirection(pd) == Upper(Get(pd, "macd_direction", Get(pd, "ema_direction", "")))

\* _matches_trigger
_matches_trigger(trigger, timeframe, crossover_type, direction) ==
    LET trigger_timeframe == Get(trigger, "timeframe", "any")
        trigger_crossover_type == Get(trigger, "crossover_type", "any")
        trigger_direction == Get(trigger, "direction", "any")
    IN  IF trigger_timeframe # "any" /\ trigger_timeframe # timeframe THEN FALSE
        ELSE IF trigger_crossover_type # "any" /\ trigger_crossover_type # crossover_type
        THEN FALSE
        ELSE IF trigger_direction # "any" /\ trigger_direction # direction THEN FALSE
        ELSE TRUE

\* whether the loop of get_applicable_rules keeps the rule
RuleApplies(rule, pd) ==
    /\ Get(rule, "enabled", TRUE)
    /\ _matches_trigger(Get(rule, "trigger", [k \in {} |-> None]),
                        Upper(Get(pd, "timeframe", "")), AlertCrossoverType(pd),
                        AlertDirection(pd))

\* get_applicable_rules: the enabled rules whose trigger matches, in list order
get_applicable_rules(rs, pd) ==
    LET Keep(rule) == RuleApplies(rule, pd)
    IN  SelectSeq(rs, Keep)

\* whether _check_single_requirement raises inside its try block (and returns
\* False from its except branch): None.upper() on the event's timeframe or on
\* the requirement's must_be
RequirementFaults(requirement, pd, states) ==
    LET timeframe0 == Get(requirement, "timeframe", "")
        check_type == Get(requirement, "check", "")
        must_be == Get(requirement, "must_be", "")
        timeframe == IF timeframe0 = "next_higher"
                     THEN get_next_higher_timeframe(Get(pd, "timeframe", ""))
                     ELSE timeframe0
    IN  IF timeframe0 = "next_higher" /\ Get(pd, "timeframe", "") = None THEN TRUE
        ELSE IF timeframe = None THEN FALSE
        ELSE IF timeframe \notin DOMAIN states THEN FALSE
        ELSE IF check_type \notin {"ema_status", "macd_status"} THEN FALSE
        ELSE must_be # "same_direction" /\ must_be = None

\* mutant of _check_single_requirement: next_higher reads the event's own
\* timeframe
_check_single_requirement_OwnTimeframe(requirement, pd, states, symbol) ==
    LET timeframe0 == Get(requirement, "timeframe", "")
        check_type == Get(requirement, "check", "")
        must_be == Get(requirement, "must_be", "")
        timeframe == IF timeframe0 = "next_higher"
                     THEN Upper(Get(pd, "timeframe", ""))
                     ELSE timeframe0
    IN  IF timeframe \notin DOMAIN states THEN FALSE
        ELSE IF check_type \notin {"ema_status", "macd_status"} THEN FALSE
        ELSE IF must_be = None THEN FALSE
        ELSE Get(states[timeframe], check_type, "UNKNOWN")
                = (IF must_be = "same_direction" THEN AlertDirection(pd) ELSE Upper(must_be))

\* mutant of _check_single_requirement: a timeframe without a state passes
_check_single_requirement_MissingPasses(requirement, pd, states, symbol) ==
    LET timeframe0 == Get(requirement, "timeframe", "")
        check_type == Get(requirement, "check", "")
        must_be == Get(requirement, "must_be", "")
        timeframe == IF timeframe0 = "next_higher"
                     THEN get_next_higher_timeframe(Get(pd, "timeframe", ""))
                     ELSE timeframe0
    IN  IF timeframe = None THEN FALSE
        ELSE IF timeframe \notin DOMAIN states THEN TRUE
        ELSE IF check_type \notin {"ema_status", "macd_status"} THEN FALSE
        ELSE Get(states[timeframe], check_type, "UNKNOWN")
                = (IF must_be = "same_direction" THEN AlertDirection(pd) ELSE Upper(must_be))

\* mutant of _check_single_requirement: an event with no timeframe above it
\* passes
_check_single_requirement_NoHigherPasses(requirement, pd, states, symbol) ==
    LET timeframe0 == Get(requirement, "timeframe", "")
        check_type == Get(requirement, "check", "")
        must_be == Get(requirement, "must_be", "")
        timeframe == IF timeframe0 = "next_higher"
                     THEN get_next_higher_timeframe(Get(pd, "timeframe", ""))
                     ELSE timeframe0
    IN  IF EventFaults(pd) /\ timeframe0 = "next_higher" THEN FALSE
        ELSE IF timeframe0 = "next_higher" /\ timeframe = None THEN TRUE
        ELSE IF timeframe \notin DOMAIN states THEN FALSE
        ELSE IF check_type \notin {"ema_status", "macd_status"} THEN FALSE
        ELSE IF must_be = None THEN FALSE
        ELSE Get(states[timeframe], check_type, "UNKNOWN")
                = (IF must_be = "same_direction" THEN AlertDirection(pd) ELSE Upper(must_be))

\* _check_single_requirement
_check_single_requirement(requirement, pd, states, symbol) ==
    LET timeframe0 == Get(requirement, "timeframe", "")
        check_type == Get(requirement, "check", "")
        must_be == Get(requirement, "must_be", "")
        timeframe == IF timeframe0 = "next_higher"
                     THEN get_next_higher_timeframe(Get(pd, "timeframe", ""))
                     ELSE timeframe0
    IN  IF EventFaults(pd) /\ timeframe0 = "next_higher"
        THEN FALSE   \* AttributeError, caught: return False
        ELSE IF timeframe0 = "next_higher" /\ timeframe = None THEN FALSE
        ELSE IF timeframe \notin DOMAIN states THEN FALSE
        ELSE LET state == states[timeframe]
             IN  IF check_type \notin {"ema_status", "macd_status"} THEN FALSE
                 ELSE IF must_be = None
                 THEN FALSE   \* None.upper() raises, caught: return False
                 ELSE LET current_status == Get(state, check_type, "UNKNOWN")
                          required_status == IF must_be = "same_direction"
                                             THEN AlertDirection(pd)
                                             ELSE Upper(must_be)
                      IN  current_status = required_status

\* _check_rule_requirements: every requirement of the rule holds
_check_rule_requirements(rule, pd, states) ==
    LET requirements == Get(rule, "requirements", <<>>)
        symbol == Get(pd, "symbol", "SPY")
    IN  \A i \in DOMAIN requirements :
            _check_single_requirement(requirements[i], pd, states, symbol)

\* mutant of EvaluateRules: no rule passed defaults to ALLOW
EvaluateRules_DefaultAllow(applicable_rules, pd, states) ==
    LET passing == {i \in DOMAIN applicable_rules :
                        _check_rule_requirements(applicable_rules[i], pd, states)}
    IN  IF passing = {} THEN TRUE
        ELSE Get(applicable_rules[Min(passing)], "action", "ALLOW") = "ALLOW"

\* mutant of EvaluateRules: a passing ALLOW rule wins wherever it stands
EvaluateRules_AnyAllow(applicable_rules, pd, states) ==
    \E i \in DOMAIN applicable_rules :
        /\ _check_rule_requirements(applicable_rules[i], pd, states)
        /\ Get(applicable_rules[i], "action", "ALLOW") = "ALLOW"

\* mutant of EvaluateRules: the last rule whose requirements are met decides
EvaluateRules_LastWins(applicable_rules, pd, states) ==
    LET passing == {i \in DOMAIN applicable_rules :
                        _check_rule_requirements(applicable_rules[i], pd, states)}
    IN  IF passing = {} THEN FALSE
        ELSE LET last == CHOOSE i \in passing : \A j \in passing : j <= i
             IN  Get(applicable_rules[last], "action", "ALLOW") = "ALLOW"

\* the loop of evaluate_alert over the applicable rules: the first rule whose
\* requirements are all met decides; BLOCK when none passes
RECURSIVE EvaluateRules(_, _, _)
EvaluateRules(applicable_rules, pd, states) ==
    IF applicable_rules = <<>> THEN FALSE
    ELSE LET rule == Head(applicable_rules)
             action == Get(rule, "action", "ALLOW")
         IN  IF _check_rule_requirements(rule, pd, states)
             THEN action = "ALLOW"
             ELSE EvaluateRules(Tail(applicable_rules), pd, states)

\* mutant of evaluate_alert: no applicable rule blocks
evaluate_alert_EmptyBlocks(rs, pd, states) ==
    IF EventFaults(pd) THEN TRUE
    ELSE LET applicable_rules == get_applicable_rules(rs, pd)
         IN  IF applicable_rules = <<>> THEN FALSE
             ELSE EvaluateRules(applicable_rules, pd, states)

\* evaluate_alert: TRUE = send the alert
evaluate_alert(rs, pd, states) ==
    IF EventFaults(pd)
    THEN TRUE   \* the exception is caught: return True
    ELSE LET applicable_rules == get_applicable_rules(rs, pd)
         IN  IF applicable_rules = <<>> THEN TRUE
             ELSE EvaluateRules(applicable_rules, pd, states)

----------------------------------------------------------------------------
(* AlertToggleManager (alert_toggle_manager.py) *)

\* the tables init_database creates (CREATE TABLE IF NOT EXISTS)
init_database == {"timeframe_states", "state_history", "system_metadata"}

\* a database file in which the table the toggle manager reads and writes
\* exists already
ExistingToggleTable == {"alert_toggles"}

\* the rows of alert_toggles at start: none, one enabled value per (symbol, tag)
AlertTogglesTable == [k \in {} |-> TRUE]

\* a statement on alert_toggles succeeds when the table exists and the
\* connection does not fail (ok); otherwise sqlite3 raises
StatementOk(tables, ok) == "alert_toggles" \in tables /\ ok

\* INSERT OR REPLACE INTO alert_toggles (symbol, tag, enabled, ...)
InsertOrReplaceToggle(toggles, sym, tag, enabled) ==
    [k \in DOMAIN toggles \cup {<<sym, tag>>} |->
        IF k = <<sym, tag>> THEN enabled ELSE toggles[k]]

\* the timeframe tokens and the default tags of ensure_defaults
ToggleTimeframes == {"1", "5", "15", "30", "1H", "2H", "4H", "1D"}

DefaultToggleTags ==
    {base \o tf : base \in {"C", "CALL", "Call", "P", "PUT", "Put", "SQZ"},
                  tf \in ToggleTimeframes}

\* tag.startswith("Call") or tag.startswith("Put"), on the tags the model uses
StartsWithCallOrPut(tag) ==
    tag \in {base \o tf : base \in {"Call", "Put"}, tf \in ToggleTimeframes}

\* the key set_many stores a tag under
NormalizedTag(tag) == IF StartsWithCallOrPut(tag) THEN tag ELSE Upper(tag)

\* SELECT tag, enabled FROM alert_toggles WHERE symbol = ? as a dict
TogglesOf(toggles, sym) ==
    [tag \in {k[2] : k \in {q \in DOMAIN toggles : q[1] = sym}} |-> toggles[<<sym, tag>>]]

\* isinstance(enabled, bool), on Python values written as strings
IsBool(enabled) == enabled \in {"True", "False"}

\* the loop of set_many over updates.items(), in the dict's order; a value that
\* is not a bool is skipped
RECURSIVE SetManyLoop(_, _, _)
SetManyLoop(toggles, sym, updates) ==
    IF updates = <<>> THEN toggles
    ELSE LET tag == Head(updates)[1]
             enabled == Head(updates)[2]
         IN  IF ~IsBool(enabled)
             THEN SetManyLoop(toggles, sym, Tail(updates))
             ELSE SetManyLoop(InsertOrReplaceToggle(toggles, sym, NormalizedTag(tag),
                                                    enabled = "True"),
                              sym, Tail(updates))

\* mutant of set_many: every tag is stored upper-cased
set_many_UpperAll(toggles, symbol, updates, db_ok) ==
    LET sym == Upper(symbol)
        Up(i) == <<Upper(updates[i][1]), updates[i][2]>>
        after == SetManyLoop(toggles, sym, [i \in DOMAIN updates |-> Up(i)])
    IN  IF ~db_ok THEN [toggles |-> toggles, ret |-> [t \in {} |-> TRUE]]
        ELSE [toggles |-> after, ret |-> TogglesOf(after, sym)]

\* set_many: returns the table after the call and the dict returned; a
\* backing-store fault (db_ok = FALSE) is caught, nothing is committed and {} is
\* returned
set_many(toggles, symbol, updates, db_ok) ==
    LET sym == Upper(symbol)
        after == SetManyLoop(toggles, sym, updates)
    IN  IF ~db_ok THEN [toggles |-> toggles, ret |-> [t \in {} |-> TRUE]]
        ELSE [toggles |-> after, ret |-> TogglesOf(after, sym)]

\* mutant of ensure_defaults: the defaults are written over the existing entries
ensure_defaults_Overwrite(toggles, symbol, db_ok) ==
    LET sym == Upper(symbol)
    IN  IF ~db_ok THEN toggles
        ELSE [k \in DOMAIN toggles \cup ({sym} \X DefaultToggleTags) |->
                IF k \in {sym} \X DefaultToggleTags THEN TRUE ELSE toggles[k]]

\* ensure_defaults: INSERT every default tag the symbol has no entry for
ensure_defaults(toggles, symbol, db_ok) ==
    LET sym == Upper(symbol)
        existing_tags == {k[2] : k \in {q \in DOMAIN toggles : q[1] = sym}}
    IN  IF ~db_ok THEN toggles
        ELSE [k \in DOMAIN toggles \cup ({sym} \X (DefaultToggleTags \ existing_tags)) |->
                IF k \in DOMAIN toggles THEN toggles[k] ELSE TRUE]

\* mutant of is_enabled: a lookup that faults answers False
is_enabled_FailClosed(toggles, symbol, tag, db_ok) ==
    LET sym == Upper(symbol)
    IN  IF ~db_ok THEN FALSE
        ELSE IF <<sym, tag>> \in DOMAIN toggles THEN toggles[<<sym, tag>>]
        ELSE TRUE

\* mutant of is_enabled: a tag without an entry is disabled
is_enabled_DefaultOff(toggles, symbol, tag, db_ok) ==
    LET sym == Upper(symbol)
    IN  IF ~db_ok THEN TRUE
        ELSE IF <<sym, tag>> \in DOMAIN toggles THEN toggles[<<sym, tag>>]
        ELSE FALSE

\* is_enabled: the entry of (symbol, tag) in exact case, True when there is none
\* or when the lookup faults
is_enabled(toggles, symbol, tag, db_ok) ==
    LET sym == Upper(symbol)
    IN  IF ~db_ok THEN TRUE
        ELSE IF <<sym, tag>> \in DOMAIN toggles THEN toggles[<<sym, tag>>]
        ELSE TRUE

\* the symbols, updates and tags of the toggle calls
ToggleSymbols == {"QQQ", "spy"}

ToggleEntries ==
    {<<"CALL1H", "False">>, <<"c5", "False">>, <<"C5", "True">>, <<"Call5", "False">>,
     <<"PUT1H", "yes">>}

\* the update dicts: empty, one entry, or two entries in the dict's order
ToggleUpdates ==
    {<<>>} \cup {<<e>> : e \in ToggleEntries}
           \cup {<<<<"c5", "False">>, <<"C5", "True">>>>,
                 <<<<"CALL1H", "False">>, <<"PUT1H", "yes">>>>,
                 <<<<"Call5", "False">>, <<"C5", "True">>>>}

LookupTags == {"CALL1H", "PUT1H", "C5", "c5", "Call5", "CALL5", "NEWTAG"}

----------------------------------------------------------------------------
(* update_timeframe_state step by step, as concurrent callers run it *)

\* the calls concurrent callers make, with valid arguments already normalized
ConcCalls ==
    [symbol : {"SPY"}, timeframe : {"5MIN"}, crossover_type : {"ema", "macd"},
     direction : {"BULLISH", "BEARISH"}, price : {"450.0"}]

\* the statuses the rows hold, per (symbol, timeframe, indicator)
HeldBy(rows) ==
    {<<rows[i].symbol, rows[i].timeframe, "ema", rows[i].ema_status>> : i \in DOMAIN rows}
    \cup
    {<<rows[i].symbol, rows[i].timeframe, "macd", rows[i].macd_status>> : i \in DOMAIN rows}

\* the SELECT of the current state: the row as this call sees it
ReadStep(call, rows) ==
    LET c == call.args[1]
    IN  [call EXCEPT !.pc = "read",
                     !.seen = get_timeframe_state(rows, c.symbol, c.timeframe)]

\* mutant of CommitStep: a statement that fails does not end the call
CommitStep_IgnoreFailure(call, rows, now, db_ok) ==
    LET c == call.args[1]
        found == RowsWhere(rows, c.symbol, c.timeframe)
        written == UpdatedRow(call.seen[1], c.crossover_type, c.direction, c.price, now)
        rows2 == [i \in DOMAIN rows |->
                    IF i \in found
                    THEN [rows[i] EXCEPT
                            !.ema_status = written.ema_status,
                            !.macd_status = written.macd_status,
                            !.last_ema_update =
                                IF c.crossover_type = "ema" THEN now ELSE @,
                            !.last_macd_update =
                                IF c.crossover_type = "macd" THEN now ELSE @,
                            !.last_ema_price = written.last_ema_price,
                            !.last_macd_price = written.last_macd_price]
                    ELSE rows[i]]
        ins == InsertTimeframeState(rows, NewRow(c.symbol, c.timeframe, c.crossover_type,
                                                 c.direction, c.price, now))
    IN  IF ~db_ok
        THEN [rows |-> rows, call |-> [call EXCEPT !.pc = "committed", !.fault = TRUE]]
        ELSE IF call.seen # <<>>
        THEN [rows |-> rows2, call |-> [call EXCEPT !.pc = "committed"]]
        ELSE [rows |-> ins.rows, call |-> [call EXCEPT !.pc = "committed"]]

\* the UPDATE or INSERT and conn.commit(): an UPDATE writes the new status and
\* price of the indicator and, for the other indicator, the values this call
\* read; an INSERT of a row that exists by now raises; a statement that raises
\* ends the call with False
CommitStep(call, rows, now, db_ok) ==
    LET c == call.args[1]
        found == RowsWhere(rows, c.symbol, c.timeframe)
        written == UpdatedRow(call.seen[1], c.crossover_type, c.direction, c.price, now)
        rows2 == [i \in DOMAIN rows |->
                    IF i \in found
                    THEN [rows[i] EXCEPT
                            !.ema_status = written.ema_status,
                            !.macd_status = written.macd_status,
                            !.last_ema_update =
                                IF c.crossover_type = "ema" THEN now ELSE @,
                            !.last_macd_update =
                                IF c.crossover_type = "macd" THEN now ELSE @,
                            !.last_ema_price = written.last_ema_price,
                            !.last_macd_price = written.last_macd_price]
                    ELSE rows[i]]
        ins == InsertTimeframeState(rows, NewRow(c.symbol, c.timeframe, c.crossover_type,
                                                 c.direction, c.price, now))
    IN  IF ~db_ok
        THEN [rows |-> rows,
              call |-> [call EXCEPT !.pc = "done", !.ret = "False", !.fault = TRUE]]
        ELSE IF call.seen # <<>>
        THEN [rows |-> rows2, call |-> [call EXCEPT !.pc = "committed"]]
        ELSE IF ~ins.ok
        THEN [rows |-> rows, call |-> [call EXCEPT !.pc = "done", !.ret = "False"]]
        ELSE [rows |-> ins.rows, call |-> [call EXCEPT !.pc = "committed"]]

\* log_state_change after the commit, then return True; a failing append is
\* logged and the call still returns True
LogStep(call, hist, now, hist_ok) ==
    LET c == call.args[1]
        old_status == IF call.seen = <<>> THEN "UNKNOWN"
                      ELSE IF c.crossover_type = "ema" THEN call.seen[1].ema_status
                      ELSE call.seen[1].macd_status
    IN  [hist |-> log_state_change(hist, c.symbol, c.timeframe, c.crossover_type,
                                   old_status, c.direction, c.price, now, hist_ok),
         call |-> [call EXCEPT !.pc = "done", !.ret = "True",
                               !.fault = @ \/ ~hist_ok]]

----------------------------------------------------------------------------
(* The inbound pipeline (main.py): analyze_data and send_discord_alert *)

\* Python's True / False / None as a call's result
PyBool(b) == IF b THEN "True" ELSE "False"

\* analyze_data: the weekend and time filters (filtered), then evaluate_alert on
\* the symbol's states, then the categories that alert; evaluated tells
\* whether evaluate_alert was called, allowed what it returned and states the
\* snapshot it was handed
analyze_data(rs, pd, rows, filtered) ==
    LET symbol == Get(pd, "symbol", "SPY")
        states == get_all_states(rows, symbol)
        allowed == evaluate_alert(rs, pd, states)
    IN  IF filtered
        THEN [evaluated |-> FALSE, allowed |-> FALSE, triggered |-> FALSE,
              states |-> <<>>]
        ELSE IF ~allowed
        THEN [evaluated |-> TRUE, allowed |-> FALSE, triggered |-> FALSE,
              states |-> states]
        ELSE [evaluated |-> TRUE, allowed |-> TRUE,
              triggered |-> Get(pd, "action", None)
                              \in {"macd_crossover", "moving_average_crossover"},
              states |-> states]

\* (parsed.get('timeframe') or '').upper()
CurrentTf(pd) ==
    IF Get(pd, "timeframe", None) = None THEN "" ELSE Upper(Get(pd, "timeframe", None))

\* suffix_from_timeframe of the MACD branch, upper-cased as the toggle tag is
MacdSuffix(tf) ==
    CASE tf = None -> ""
      [] tf = "" -> ""
      [] tf = "1MIN" -> "1"
      [] tf = "5MIN" -> "5"
      [] tf = "15MIN" -> "15"
      [] tf = "30MIN" -> "30"
      [] tf = "1HR" -> "1H"
      [] tf = "2HR" -> "2H"
      [] tf = "4HR" -> "4H"
      [] tf = "1DAY" -> "1D"
      [] OTHER -> tf

\* suffix_from_timeframe_for_tag of the EMA branch
suffix_from_timeframe_for_tag(tf) ==
    CASE tf = "" -> ""
      [] tf = "1MIN" -> "1"
      [] tf = "5MIN" -> "5"
      [] tf = "15MIN" -> "15"
      [] tf = "30MIN" -> "30"
      [] tf = "1HR" -> "1H"
      [] tf = "2HR" -> "2H"
      [] tf = "4HR" -> "4H"
      [] tf = "1DAY" -> "1D"
      [] OTHER -> tf

\* mutant of ToggleTag: the EMA tag reads the MACD status of the next higher
\* timeframe
ToggleTag_HigherMacd(pd, rows) ==
    LET symbol == Upper(Get(pd, "symbol", "SPY"))
        current_tf == CurrentTf(pd)
        next_tf == IF current_tf # "" THEN get_next_higher_timeframe(current_tf) ELSE None
        macd_direction == Lower(Get(pd, "macd_direction", "bullish"))
        ema_direction == Lower(Get(pd, "ema_direction", "bullish"))
        states == get_all_states(rows, symbol)
        higher_ema_status ==
            IF next_tf # None /\ next_tf \in DOMAIN states
            THEN Upper(states[next_tf].macd_status) ELSE None
        tag_suffix == suffix_from_timeframe_for_tag(current_tf)
    IN  IF Get(pd, "action", None) = "macd_crossover"
        THEN (IF macd_direction = "bullish" THEN "CALL" ELSE "PUT") \o MacdSuffix(next_tf)
        ELSE IF ema_direction = "bullish"
        THEN (IF higher_ema_status = "BULLISH" THEN "CALL" ELSE "C") \o tag_suffix
        ELSE (IF higher_ema_status = "BEARISH" THEN "PUT" ELSE "P") \o tag_suffix

\* mutant of ToggleTag: a MACD tag carries the token of the event's own timeframe
ToggleTag_OwnTimeframe(pd, rows) ==
    LET symbol == Upper(Get(pd, "symbol", "SPY"))
        current_tf == CurrentTf(pd)
        next_tf == IF current_tf # "" THEN get_next_higher_timeframe(current_tf) ELSE None
        macd_direction == Lower(Get(pd, "macd_direction", "bullish"))
        ema_direction == Lower(Get(pd, "ema_direction", "bullish"))
        states == get_all_states(rows, symbol)
        higher_ema_status ==
            IF next_tf # None /\ next_tf \in DOMAIN states
            THEN Upper(states[next_tf].ema_status) ELSE None
        tag_suffix == suffix_from_timeframe_for_tag(current_tf)
    IN  IF Get(pd, "action", None) = "macd_crossover"
        THEN (IF macd_direction = "bullish" THEN "CALL" ELSE "PUT") \o MacdSuffix(current_tf)
        ELSE IF ema_direction = "bullish"
        THEN (IF higher_ema_status = "BULLISH" THEN "CALL" ELSE "C") \o tag_suffix
        ELSE (IF higher_ema_status = "BEARISH" THEN "PUT" ELSE "P") \o tag_suffix

\* the toggle tag send_discord_alert resolves: CALL/PUT with the token of the
\* next higher timeframe for a MACD event; for any other event C/P with the
\* token of the event's timeframe, CALL/PUT when the next higher timeframe's
\* EMA agrees
ToggleTag(pd, rows) ==
    LET symbol == Upper(Get(pd, "symbol", "SPY"))
        current_tf == CurrentTf(pd)
        next_tf == IF current_tf # "" THEN get_next_higher_timeframe(current_tf) ELSE None
        macd_direction == Lower(Get(pd, "macd_direction", "bullish"))
        ema_direction == Lower(Get(pd, "ema_direction", "bullish"))
        states == get_all_states(rows, symbol)
        higher_ema_status ==
            IF next_tf # None /\ next_tf \in DOMAIN states
            THEN Upper(states[next_tf].ema_status) ELSE None
        tag_suffix == suffix_from_timeframe_for_tag(current_tf)
    IN  IF Get(pd, "action", None) = "macd_crossover"
        THEN (IF macd_direction = "bullish" THEN "CALL" ELSE "PUT") \o MacdSuffix(next_tf)
        ELSE IF ema_direction = "bullish"
        THEN (IF higher_ema_status = "BULLISH" THEN "CALL" ELSE "C") \o tag_suffix
        ELSE (IF higher_ema_status = "BEARISH" THEN "PUT" ELSE "P") \o tag_suffix

\* mutant of send_discord_alert: the toggle is not consulted
send_discord_alert_NoGate(pd, rows, toggles, webhook, db_ok) ==
    LET symbol == Upper(Get(pd, "symbol", "SPY"))
        toggle_tag == Upper(ToggleTag(pd, rows))
        enabled == is_enabled(toggles, symbol, toggle_tag, db_ok)
    IN  IF ~webhook
        THEN [tag |-> None, toggle |-> "none", posted |-> FALSE]
        ELSE [tag |-> toggle_tag, toggle |-> PyBool(enabled), posted |-> TRUE]

\* send_discord_alert: no webhook configured for the symbol: return; the tag is
\* resolved; a disabled tag: return; otherwise requests.post
send_discord_alert(pd, rows, toggles, webhook, db_ok) ==
    LET symbol == Upper(Get(pd, "symbol", "SPY"))
        toggle_tag == Upper(ToggleTag(pd, rows))
        enabled == is_enabled(toggles, symbol, toggle_tag, db_ok)
    IN  IF ~webhook
        THEN [tag |-> None, toggle |-> "none", posted |-> FALSE]
        ELSE IF toggle_tag # "" /\ ~enabled
        THEN [tag |-> toggle_tag, toggle |-> "False", posted |-> FALSE]
        ELSE [tag |-> toggle_tag, toggle |-> PyBool(enabled), posted |-> TRUE]

\* mutant of receive_sms: the alert is analyzed on the states read before the
\* update
receive_sms_AnalyzeFirst(rs, rows, hist, now, pd, toggles, config, db_ok) ==
    LET r == update_system_state(rows, hist, now, pd, TRUE)
        a == analyze_data(rs, pd, rows, config = "filtered")
        d == send_discord_alert(pd, r.rows, toggles, config # "no_webhook", db_ok)
        analyzed == config # "disabled"
        sent == analyzed /\ a.triggered
    IN  [rows |-> r.rows, hist |-> r.hist, called |-> r.called, ret |-> r.ret,
         evaluated |-> analyzed /\ a.evaluated,
         allowed |-> IF analyzed /\ a.evaluated THEN PyBool(a.allowed) ELSE "none",
         states |-> IF analyzed /\ a.evaluated THEN a.states ELSE <<>>,
         tag |-> IF sent THEN d.tag ELSE None,
         toggle |-> IF sent THEN d.toggle ELSE "none",
         posted |-> sent /\ d.posted]

\* mutant of receive_sms: the state is updated only while alerts are enabled
receive_sms_UpdateWhenEnabled(rs, rows, hist, now, pd, toggles, config, db_ok) ==
    LET r == IF config = "disabled"
             THEN [rows |-> rows, hist |-> hist, ret |-> FALSE, called |-> FALSE]
             ELSE update_system_state(rows, hist, now, pd, TRUE)
        a == analyze_data(rs, pd, r.rows, config = "filtered")
        d == send_discord_alert(pd, r.rows, toggles, config # "no_webhook", db_ok)
        analyzed == config # "disabled"
        sent == analyzed /\ a.triggered
    IN  [rows |-> r.rows, hist |-> r.hist, called |-> r.called, ret |-> r.ret,
         evaluated |-> analyzed /\ a.evaluated,
         allowed |-> IF analyzed /\ a.evaluated THEN PyBool(a.allowed) ELSE "none",
         states |-> IF analyzed /\ a.evaluated THEN a.states ELSE <<>>,
         tag |-> IF sent THEN d.tag ELSE None,
         toggle |-> IF sent THEN d.toggle ELSE "none",
         posted |-> sent /\ d.posted]

\* mutant of receive_sms: an event that changes no state is not analyzed
receive_sms_SkipDuplicates(rs, rows, hist, now, pd, toggles, config, db_ok) ==
    LET r == update_system_state(rows, hist, now, pd, TRUE)
        a == analyze_data(rs, pd, r.rows, config = "filtered")
        d == send_discord_alert(pd, r.rows, toggles, config # "no_webhook", db_ok)
        analyzed == config # "disabled" /\ r.called
        sent == analyzed /\ a.triggered
    IN  [rows |-> r.rows, hist |-> r.hist, called |-> r.called, ret |-> r.ret,
         evaluated |-> analyzed /\ a.evaluated,
         allowed |-> IF analyzed /\ a.evaluated THEN PyBool(a.allowed) ELSE "none",
         states |-> IF analyzed /\ a.evaluated THEN a.states ELSE <<>>,
         tag |-> IF sent THEN d.tag ELSE None,
         toggle |-> IF sent THEN d.toggle ELSE "none",
         posted |-> sent /\ d.posted]

\* receive_sms for a parsed event: update_system_state; then, unless alerts are
\* disabled, analyze_data and, when it triggers, send_discord_alert. config is
\* the alert configuration: disabled, filtered by day or hour, no webhook for
\* the symbol, or open
receive_sms(rs, rows, hist, now, pd, toggles, config, db_ok) ==
    LET r == update_system_state(rows, hist, now, pd, TRUE)
        a == analyze_data(rs, pd, r.rows, config = "filtered")
        d == send_discord_alert(pd, r.rows, toggles, config # "no_webhook", db_ok)
        analyzed == config # "disabled"
        sent == analyzed /\ a.triggered
    IN  [rows |-> r.rows, hist |-> r.hist, called |-> r.called, ret |-> r.ret,
         evaluated |-> analyzed /\ a.evaluated,
         allowed |-> IF analyzed /\ a.evaluated THEN PyBool(a.allowed) ELSE "none",
         states |-> IF analyzed /\ a.evaluated THEN a.states ELSE <<>>,
         tag |-> IF sent THEN d.tag ELSE None,
         toggle |-> IF sent THEN d.toggle ELSE "none",
         posted |-> sent /\ d.posted]

\* the events the parser hands to the pipeline
PipelineEvents ==
    {[symbol |-> "SPY", timeframe |-> "15MIN", action |-> "moving_average_crossover",
      price |-> "450.0", ema_direction |-> "bullish"],
     [symbol |-> "SPY", timeframe |-> "15MIN", action |-> "moving_average_crossover",
      price |-> "450.0", ema_direction |-> "bearish"],
     [symbol |-> "SPY", timeframe |-> "5MIN", action |-> "moving_average_crossover",
      price |-> "450.0", ema_direction |-> "bullish"],
     [symbol |-> "SPY", timeframe |-> "5MIN", action |-> "macd_crossover",
      price |-> "450.0", macd_direction |-> "bullish"],
     [symbol |-> "SPY", timeframe |-> "5MIN", action |-> "macd_crossover",
      price |-> "450.0", macd_direction |-> "bearish"],
     [symbol |-> "SPY", timeframe |-> "5MIN", action |-> "trade_signal",
      price |-> "450.0"],
     [symbol |-> "SPY", timeframe |-> None, action |-> "macd_crossover",
      price |-> "450.0", macd_direction |-> "bullish"],
     [symbol |-> "SPY", timeframe |-> None, action |-> "moving_average_crossover",
      price |-> "450.0", ema_direction |-> "bullish"]}

\* the events and the stored rows the tag is resolved for: every timeframe of
\* the hierarchy, a lower-case and an unlisted label; no row, or one row of a
\* timeframe with its EMA status BULLISH, BEARISH or UNKNOWN
TagEvents ==
    LET Base(action) ==
            [symbol : {"SPY"},
             timeframe : {TIMEFRAME_HIERARCHY[i] : i \in DOMAIN TIMEFRAME_HIERARCHY}
                         \cup {"5min", "BOGUS"},
             action : {action}, price : {"450.0"}]
    IN  {b @@ ("macd_direction" :> d) :
            b \in Base("macd_crossover"), d \in {"bullish", "bearish"}}
        \cup
        {b @@ ("ema_direction" :> d) :
            b \in Base("moving_average_crossover"), d \in {"bullish", "bearish"}}

TagRows ==
    {<<>>}
    \cup
    {<<NewRow("SPY", TIMEFRAME_HIERARCHY[i], "ema", d, "450.0", <<0>>)>> :
        i \in DOMAIN TIMEFRAME_HIERARCHY, d \in {"BULLISH", "BEARISH"}}
    \cup
    {<<NewRow("SPY", TIMEFRAME_HIERARCHY[i], "macd", "BULLISH", "450.0", <<0>>)>> :
        i \in DOMAIN TIMEFRAME_HIERARCHY}

\* the updates set_many is called with while the pipeline runs
PipelineToggleUpdates == {<<<<"CALL15", "False">>>>, <<<<"CALL15", "True">>>>}

----------------------------------------------------------------------------
(* State Service calls *)

OpRecord(op, symbol, timeframe, crossover_type, direction, price, ret) ==
    [op |-> op, symbol |-> symbol, timeframe |-> timeframe,
     crossover_type |-> crossover_type, direction |-> direction,
     price |-> price, ret |-> ret]

\* what datetime.now() / CURRENT_TIMESTAMP can read during the next call
Now == {t \in {clock, clock + 1} : t <= MaxClock}

\* a direct call of StateManager.update_timeframe_state (as sync_prod.py makes)
UpdateTimeframeStateCall ==
    /\ phase = "run"
    /\ Len(state_history) < MaxHistory
    /\ \E c \in ValidCalls \cup InvalidCalls, now \in Now :
          LET r == update_timeframe_state(timeframe_states, state_history, <<now>>,
                                          c.symbol, c.timeframe, c.crossover_type,
                                          c.direction, c.price, TRUE)
          IN  /\ timeframe_states' = r.rows
              /\ state_history' = r.hist
              /\ clock' = now
              /\ lastOp' = OpRecord("update_timeframe_state", Upper(c.symbol),
                                    Upper(c.timeframe), Lower(c.crossover_type),
                                    Upper(c.direction), c.price, PyBool(r.ret))
    /\ UNCHANGED <<system_metadata, recoveryVars, engineVars, toggleVars, pipelineVars,
                 hierarchyVars,
                   concVars, configVars, jobVars>>

\* the inbound pipeline handles one event (receive_sms -> update_system_state)
UpdateSystemStateCall ==
    /\ phase = "run"
    /\ Len(state_history) < MaxHistory
    /\ \E pd \in ParsedEvents, now \in Now :
          LET r == update_system_state(timeframe_states, state_history, <<now>>, pd, TRUE)
          IN  /\ timeframe_states' = r.rows
              /\ state_history' = r.hist
              /\ clock' = now
              /\ lastOp' = OpRecord("update_system_state", Get(pd, "symbol", "SPY"),
                                    Get(pd, "timeframe", None), EventCrossoverType(pd),
                                    Upper(EventDirection(pd)), Get(pd, "price", None),
                                    IF r.called THEN PyBool(r.ret) ELSE None)
    /\ UNCHANGED <<system_metadata, recoveryVars, engineVars, toggleVars, pipelineVars,
                 hierarchyVars,
                   concVars, configVars, jobVars>>

\* POST /symbols -> ensure_symbol_exists
EnsureSymbolExistsCall ==
    /\ phase = "run"
    /\ \E symbol \in Symbols :
          /\ timeframe_states' = ensure_symbol_exists(timeframe_states, symbol)
          /\ lastOp' = OpRecord("ensure_symbol_exists", Upper(symbol), None, None, None,
                                None, None)
    /\ UNCHANGED <<state_history, system_metadata, clock, recoveryVars, engineVars, toggleVars, pipelineVars,
                 hierarchyVars,
                   concVars, configVars, jobVars>>

\* bootstrap_from_history, as at process start-up
BootstrapFromHistoryCall ==
    /\ phase = "run"
    /\ \E pick \in LatestPicks(state_history) :
          LET r == bootstrap_from_history(timeframe_states, state_history, pick)
          IN  /\ timeframe_states' = r.rows
              /\ state_history' = r.hist
    /\ lastOp' = OpRecord("bootstrap_from_history", None, None, None, None, None, None)
    /\ UNCHANGED <<system_metadata, clock, recoveryVars, engineVars, toggleVars, pipelineVars,
                 hierarchyVars,
                   concVars, configVars, jobVars>>

\* set_metadata
SetMetadataCall ==
    /\ phase = "run"
    /\ \E key \in MetadataKeys, value \in MetadataValues :
          system_metadata' = set_metadata(system_metadata, key, value)
    /\ lastOp' = OpRecord("set_metadata", None, None, None, None, None, None)
    /\ UNCHANGED <<timeframe_states, state_history, clock, recoveryVars, engineVars, toggleVars, pipelineVars,
                 hierarchyVars,
                   concVars, configVars, jobVars>>

\* data loss of the recovery scenario: every timeframe_states row is deleted,
\* state_history is kept; the snapshot is get_all_states right before
WipeStates ==
    /\ phase = "run"
    /\ snapshot' = get_all_states(timeframe_states, "SPY")
    /\ timeframe_states' = <<>>
    /\ phase' = "wiped"
    /\ lastOp' = OpRecord("wipe", None, None, None, None, None, None)
    /\ UNCHANGED <<state_history, system_metadata, clock, engineVars, toggleVars, pipelineVars,
                 hierarchyVars,
                   concVars, configVars, jobVars>>

\* bootstrap_from_history after the wipe
RecoverFromHistoryCall ==
    /\ phase = "wiped"
    /\ \E pick \in LatestPicks(state_history) :
          LET r == bootstrap_from_history(timeframe_states, state_history, pick)
          IN  /\ timeframe_states' = r.rows
              /\ state_history' = r.hist
    /\ phase' = "recovered"
    /\ lastOp' = OpRecord("bootstrap_from_history", None, None, None, None, None, None)
    /\ UNCHANGED <<system_metadata, clock, snapshot, engineVars, toggleVars, pipelineVars,
                 hierarchyVars,
                   concVars, configVars, jobVars>>

\* analyze_data -> confluence_rules.evaluate_alert(parsed_data, current_states)
EvaluateAlertCall ==
    /\ evalResult = "none"
    /\ evalResult' = PyBool(evaluate_alert(rules, parsed_data, current_states))
    /\ UNCHANGED <<storeVars, recoveryVars, rules, parsed_data, current_states, toggleVars, pipelineVars,
                 hierarchyVars,
                   concVars, configVars, jobVars>>

\* the callers of update_timeframe_state, and a caller with no call in flight
Callers == {1, 2}

IdleCall ==
    [pc |-> "idle", args |-> <<>>, seen |-> <<>>, ret |-> "none", fault |-> FALSE,
     seq |-> 0, with |-> 0]

\* no toggle row, and no call made yet
OtherInit ==
    /\ alert_toggles = AlertTogglesTable
    /\ lastToggle = [op |-> "init"]
    /\ lastAlert = [op |-> "init"]
    /\ nextHigherCalls = <<>>
    /\ calls = [p \in Callers |-> IdleCall]
    /\ arrivals = <<>>
    /\ everHeld = {}
    /\ lastRuleOp = [op |-> "init"]
    /\ lastJob = [op |-> "init"]

\* the stores right after init_database
StoreInit ==
    /\ timeframe_states = <<>>
    /\ state_history = <<>>
    /\ system_metadata = [k \in {} |-> None]
    /\ clock = 0
    /\ lastOp = OpRecord("init", None, None, None, None, None, None)
    /\ phase = "run"
    /\ snapshot = [tf \in {} |-> None]
    /\ db_tables = init_database
    /\ OtherInit

Init ==
    /\ timeframe_states = <<>>
    /\ state_history = <<>>
    /\ system_metadata = [k \in {} |-> None]
    /\ clock = 0
    /\ lastOp = OpRecord("init", None, None, None, None, None, None)
    /\ phase = "run"
    /\ snapshot = [tf \in {} |-> None]
    /\ db_tables = init_database
    /\ OtherInit
    /\ rules = DefaultRules
    /\ parsed_data = [k \in {} |-> None]
    /\ current_states = [tf \in {} |-> None]
    /\ evalResult = "none"
    /\ rules_file = <<rules>>

Next ==
    \/ UpdateTimeframeStateCall
    \/ UpdateSystemStateCall
    \/ EnsureSymbolExistsCall
    \/ BootstrapFromHistoryCall
    \/ SetMetadataCall

Spec == Init /\ [][Next]_vars

\* the recovery scenario: calls, then the wipe, then bootstrap_from_history
NextRecovery ==
    \/ UpdateTimeframeStateCall
    \/ UpdateSystemStateCall
    \/ EnsureSymbolExistsCall
    \/ BootstrapFromHistoryCall
    \/ WipeStates
    \/ RecoverFromHistoryCall

SpecRecovery == Init /\ [][NextRecovery]_vars

\* the rules engine alone: a loaded rule list, an event and a snapshot, then the
\* evaluation
InitEval ==
    /\ StoreInit
    /\ rules \in RuleLists \cup DefaultRuleSets
    /\ parsed_data \in EvalEvents
    /\ current_states \in EvalSnapshots
    /\ evalResult = "none"
    /\ rules_file = <<rules>>

NextEval == EvaluateAlertCall

SpecEval == InitEval /\ [][NextEval]_vars

----------------------------------------------------------------------------
(* Toggle Service calls *)

\* set_many, as POST /alerts/{symbol} calls it after ensure_defaults
SetManyCall ==
    /\ \E symbol \in ToggleSymbols, updates \in ToggleUpdates, ok \in BOOLEAN :
          LET r == set_many(alert_toggles, symbol, updates, StatementOk(db_tables, ok))
          IN  /\ alert_toggles' = r.toggles
              /\ lastToggle' = [op |-> "set_many", symbol |-> symbol, updates |-> updates,
                                ok |-> ok, ret |-> r.ret]
    /\ UNCHANGED <<storeVars, recoveryVars, engineVars, pipelineVars, hierarchyVars,
                   db_tables,
                   concVars, configVars, jobVars>>

\* ensure_defaults, as the start-up and the /alerts endpoints call it
EnsureDefaultsCall ==
    /\ \E symbol \in ToggleSymbols, ok \in BOOLEAN :
          /\ alert_toggles' = ensure_defaults(alert_toggles, symbol,
                                              StatementOk(db_tables, ok))
          /\ lastToggle' = [op |-> "ensure_defaults", symbol |-> symbol, ok |-> ok]
    /\ UNCHANGED <<storeVars, recoveryVars, engineVars, pipelineVars, hierarchyVars,
                   db_tables,
                   concVars, configVars, jobVars>>

\* is_enabled, as the toggle gate of send_discord_alert calls it
IsEnabledCall ==
    /\ \E symbol \in ToggleSymbols, tag \in LookupTags, ok \in BOOLEAN :
          lastToggle' = [op |-> "is_enabled", symbol |-> symbol, tag |-> tag,
                         ok |-> ok,
                         ret |-> is_enabled(alert_toggles, symbol, tag,
                                            StatementOk(db_tables, ok))]
    /\ UNCHANGED <<storeVars, recoveryVars, engineVars, pipelineVars, hierarchyVars,
                   db_tables, alert_toggles,
                   concVars, configVars, jobVars>>

\* the toggle manager is constructed on the database file init_database has
\* just created, or on one that already held the table alert_toggles
InitToggle ==
    /\ timeframe_states = <<>>
    /\ state_history = <<>>
    /\ system_metadata = [k \in {} |-> None]
    /\ clock = 0
    /\ lastOp = OpRecord("init", None, None, None, None, None, None)
    /\ phase = "run"
    /\ snapshot = [tf \in {} |-> None]
    /\ db_tables \in {init_database, init_database \cup ExistingToggleTable}
    /\ OtherInit
    /\ rules = DefaultRules
    /\ parsed_data = [k \in {} |-> None]
    /\ current_states = [tf \in {} |-> None]
    /\ evalResult = "none"
    /\ rules_file = <<rules>>

NextToggle ==
    \/ SetManyCall
    \/ EnsureDefaultsCall
    \/ IsEnabledCall

SpecToggle == InitToggle /\ [][NextToggle]_vars

----------------------------------------------------------------------------
(* Pipeline calls *)

\* receive_sms for a regular alert: update_system_state, then, when alerts are
\* enabled, analyze_data and, when it triggers, send_discord_alert
ReceiveSmsCall ==
    /\ phase = "run"
    /\ \E pd \in PipelineEvents, config \in {"disabled", "filtered", "no_webhook", "open"} :
          \E r \in {receive_sms(rules, timeframe_states, state_history, <<clock>>, pd,
                                alert_toggles, config, StatementOk(db_tables, TRUE))} :
              /\ Len(r.hist) <= MaxHistory
              /\ timeframe_states' = r.rows
              /\ state_history' = r.hist
              /\ lastOp' = OpRecord("update_system_state", Get(pd, "symbol", "SPY"),
                                    Get(pd, "timeframe", None), EventCrossoverType(pd),
                                    Upper(EventDirection(pd)), Get(pd, "price", None),
                                    IF r.called THEN PyBool(r.ret) ELSE None)
              /\ lastAlert' =
                    [op |-> "receive_sms", event |-> pd, config |-> config,
                     called |-> r.called, evaluated |-> r.evaluated,
                     allowed |-> r.allowed, states |-> r.states, tag |-> r.tag,
                     toggle |-> r.toggle, posted |-> r.posted]
    /\ UNCHANGED <<system_metadata, clock, recoveryVars, engineVars, toggleVars,
                   hierarchyVars,
                   concVars, configVars, jobVars>>

\* set_many for SPY, between two events
SetSpyTogglesCall ==
    /\ \E updates \in PipelineToggleUpdates :
          LET r == set_many(alert_toggles, "SPY", updates, StatementOk(db_tables, TRUE))
          IN  /\ alert_toggles' = r.toggles
              /\ lastToggle' = [op |-> "set_many", symbol |-> "SPY", updates |-> updates,
                                ok |-> TRUE, ret |-> r.ret]
    /\ UNCHANGED <<storeVars, recoveryVars, engineVars, pipelineVars, hierarchyVars,
                   db_tables,
                   concVars, configVars, jobVars>>

NextPipeline ==
    \/ ReceiveSmsCall
    \/ SetSpyTogglesCall

SpecPipeline == InitToggle /\ [][NextPipeline]_vars

----------------------------------------------------------------------------
(* Concurrent update_timeframe_state calls *)

InFlight(call) == call.pc \in {"arrived", "read", "committed"}

\* a caller enters update_timeframe_state; with names the one call in flight at
\* the same time, -1 when there has been more than one
ArriveCall ==
    /\ Len(SelectSeq(arrivals, LAMBDA a : a.caller \in Callers)) < MaxArrivals
    /\ \E p \in Callers, c \in ConcCalls :
          LET seq == Len(arrivals) + 1
              Other(o) == IF InFlight(calls[o])
                          THEN [calls[o] EXCEPT !.with = IF @ = 0 THEN seq ELSE -1]
                          ELSE calls[o]
              others == {o \in Callers \ {p} : InFlight(calls[o])}
          IN  /\ ~InFlight(calls[p])
              /\ calls' = [q \in Callers |->
                              IF q = p
                              THEN [pc |-> "arrived", args |-> <<c>>, seen |-> <<>>,
                                    ret |-> "none", fault |-> calls[p].fault, seq |-> seq,
                                    with |-> IF others = {} THEN 0
                                             ELSE calls[CHOOSE o \in others : TRUE].seq]
                              ELSE Other(q)]
              /\ arrivals' = Append(arrivals, [caller |-> p,
                                               crossover_type |-> c.crossover_type,
                                               direction |-> c.direction])
    /\ UNCHANGED <<storeVars, everHeld, recoveryVars, engineVars, toggleVars,
                   pipelineVars, hierarchyVars, configVars, jobVars>>

ReadCall ==
    /\ \E p \in Callers :
          /\ calls[p].pc = "arrived"
          /\ calls' = [calls EXCEPT ![p] = ReadStep(calls[p], timeframe_states)]
    /\ UNCHANGED <<storeVars, arrivals, everHeld, recoveryVars, engineVars, toggleVars,
                   pipelineVars, hierarchyVars, configVars, jobVars>>

CommitCall ==
    /\ \E p \in Callers, db_ok \in BOOLEAN :
          LET r == CommitStep(calls[p], timeframe_states, <<clock>>, db_ok)
          IN  /\ calls[p].pc = "read"
              /\ timeframe_states' = r.rows
              /\ everHeld' = everHeld \cup HeldBy(r.rows)
              /\ calls' = [calls EXCEPT ![p] = r.call]
    /\ UNCHANGED <<state_history, system_metadata, clock, lastOp, arrivals, recoveryVars,
                   engineVars, toggleVars, pipelineVars, hierarchyVars, configVars,
                   jobVars>>

LogCall ==
    /\ \E p \in Callers, hist_ok \in BOOLEAN :
          LET r == LogStep(calls[p], state_history, <<clock>>, hist_ok)
          IN  /\ calls[p].pc = "committed"
              /\ state_history' = r.hist
              /\ calls' = [calls EXCEPT ![p] = r.call]
    /\ UNCHANGED <<timeframe_states, system_metadata, clock, lastOp, arrivals, everHeld,
                   recoveryVars, engineVars, toggleVars, pipelineVars, hierarchyVars,
                   configVars, jobVars>>

\* the process of a caller dies between the commit and the history append
CrashCall ==
    /\ \E p \in Callers :
          /\ calls[p].pc = "committed"
          /\ calls' = [calls EXCEPT ![p] = [@ EXCEPT !.pc = "done", !.ret = "crashed",
                                                     !.fault = TRUE]]
    /\ UNCHANGED <<storeVars, arrivals, everHeld, recoveryVars, engineVars, toggleVars,
                   pipelineVars, hierarchyVars, configVars, jobVars>>

NextConc ==
    \/ ArriveCall
    \/ ReadCall
    \/ CommitCall
    \/ LogCall
    \/ CrashCall

\* the store when the callers start: empty, or as one earlier call, completed
\* before they arrive, left it
EarlierCall ==
    [caller |-> 0, crossover_type |-> "ema", direction |-> "BULLISH"]

InitConc ==
    /\ \E earlier \in BOOLEAN :
          LET r == update_timeframe_state(<<>>, <<>>, <<0>>, "SPY", "5MIN",
                                          EarlierCall.crossover_type,
                                          EarlierCall.direction, "450.0", TRUE)
          IN  /\ timeframe_states = IF earlier THEN r.rows ELSE <<>>
              /\ state_history = IF earlier THEN r.hist ELSE <<>>
              /\ arrivals = IF earlier THEN <<EarlierCall>> ELSE <<>>
    /\ everHeld = HeldBy(timeframe_states)
    /\ calls = [p \in Callers |-> IdleCall]
    /\ system_metadata = [k \in {} |-> None]
    /\ clock = 0
    /\ lastOp = OpRecord("init", None, None, None, None, None, None)
    /\ phase = "run"
    /\ snapshot = [tf \in {} |-> None]
    /\ db_tables = init_database
    /\ alert_toggles = AlertTogglesTable
    /\ lastToggle = [op |-> "init"]
    /\ lastAlert = [op |-> "init"]
    /\ nextHigherCalls = <<>>
    /\ lastRuleOp = [op |-> "init"]
    /\ lastJob = [op |-> "init"]
    /\ rules = DefaultRules
    /\ parsed_data = [k \in {} |-> None]
    /\ current_states = [tf \in {} |-> None]
    /\ evalResult = "none"
    /\ rules_file = <<rules>>

SpecConc == InitConc /\ [][NextConc]_vars

----------------------------------------------------------------------------
(* The rules file and the rule endpoints *)

OtherThanRules ==
    <<storeVars, recoveryVars, parsed_data, current_states, evalResult, toggleVars,
      pipelineVars, hierarchyVars, concVars, jobVars>>

\* ConfluenceRulesEngine.__init__: rules = [], then load_rules
ConstructEngineCall ==
    /\ lastRuleOp.op = "init"
    /\ \E ok \in BOOLEAN :
          LET r == load_rules(rules_file, ok)
          IN  /\ rules' = r.rules
              /\ rules_file' = r.file
              /\ lastRuleOp' = [op |-> "load_rules", ok |-> ok,
                                existed |-> rules_file # <<>>]
    /\ UNCHANGED OtherThanRules

StartupCall ==
    /\ lastRuleOp.op # "init"
    /\ \E ok \in BOOLEAN :
          LET r == StartupLoad(rules_file, ok)
          IN  /\ rules' = r.rules
              /\ rules_file' = r.file
              /\ lastRuleOp' = [op |-> "startup", ok |-> ok,
                                existed |-> rules_file # <<>>]
    /\ UNCHANGED OtherThanRules

ReloadRulesCall ==
    /\ lastRuleOp.op # "init"
    /\ \E ok \in BOOLEAN :
          LET r == reload_rules(rules_file, ok)
          IN  /\ rules' = r.rules
              /\ rules_file' = r.file
              /\ lastRuleOp' = [op |-> "reload_rules", ok |-> ok,
                                existed |-> rules_file # <<>>]
    /\ UNCHANGED OtherThanRules

EnableRuleCall ==
    /\ lastRuleOp.op # "init"
    /\ \E rule_index \in RuleIndexes :
          LET r == enable_rule(rules, rules_file, rule_index)
          IN  /\ rules' = r.rules
              /\ rules_file' = r.file
              /\ lastRuleOp' = [op |-> "enable_rule", rule_index |-> rule_index,
                                status |-> r.status]
    /\ UNCHANGED OtherThanRules

DisableRuleCall ==
    /\ lastRuleOp.op # "init"
    /\ \E rule_index \in RuleIndexes :
          LET r == disable_rule(rules, rules_file, rule_index)
          IN  /\ rules' = r.rules
              /\ rules_file' = r.file
              /\ lastRuleOp' = [op |-> "disable_rule", rule_index |-> rule_index,
                                status |-> r.status]
    /\ UNCHANGED OtherThanRules

\* the engine before its constructor has loaded the rules
InitConfig ==
    /\ StoreInit
    /\ rules = <<>>
    /\ rules_file \in InitialRuleFiles
    /\ parsed_data = [k \in {} |-> None]
    /\ current_states = [tf \in {} |-> None]
    /\ evalResult = "none"

NextConfig ==
    \/ ConstructEngineCall
    \/ StartupCall
    \/ ReloadRulesCall
    \/ EnableRuleCall
    \/ DisableRuleCall

SpecConfig == InitConfig /\ [][NextConfig]_vars

----------------------------------------------------------------------------
(* The daily summary job *)

\* one wake-up of the scheduler; a database fault fails the read of the last
\* run's date and the write of the new one
DailySummaryJobCall ==
    /\ \E today_str \in SummaryDays, send \in SendOutcomes, db_ok \in BOOLEAN :
          LET r == DailySummaryRun(system_metadata, timeframe_states, state_history,
                                   today_str, send, db_ok, db_ok)
          IN  /\ system_metadata' = r.meta
              /\ timeframe_states' = r.rows
              /\ state_history' = r.hist
              /\ lastJob' = [op |-> "daily_summary", today_str |-> today_str,
                             outcome |-> r.outcome]
    /\ lastOp' = OpRecord("daily_summary", None, None, None, None, None, None)
    /\ UNCHANGED <<clock, recoveryVars, engineVars, toggleVars, pipelineVars,
                   hierarchyVars, concVars, configVars>>

NextJob ==
    \/ UpdateTimeframeStateCall
    \/ DailySummaryJobCall

SpecJob == Init /\ [][NextJob]_vars

----------------------------------------------------------------------------
(* send_discord_alert on its own *)

SendDiscordAlertCall ==
    /\ lastAlert.op = "init"
    /\ LET d == send_discord_alert(parsed_data, timeframe_states, alert_toggles, TRUE,
                                   StatementOk(db_tables, TRUE))
       IN  lastAlert' = [op |-> "send_discord_alert", event |-> parsed_data,
                         tag |-> d.tag, toggle |-> d.toggle, posted |-> d.posted]
    /\ UNCHANGED <<storeVars, recoveryVars, engineVars, toggleVars, hierarchyVars,
                   concVars, configVars, jobVars>>

\* an event handed to send_discord_alert and the rows stored at that time
InitTag ==
    /\ timeframe_states \in TagRows
    /\ state_history = <<>>
    /\ system_metadata = [k \in {} |-> None]
    /\ clock = 0
    /\ lastOp = OpRecord("init", None, None, None, None, None, None)
    /\ phase = "run"
    /\ snapshot = [tf \in {} |-> None]
    /\ db_tables = init_database
    /\ OtherInit
    /\ rules = DefaultRules
    /\ parsed_data \in TagEvents
    /\ current_states = [tf \in {} |-> None]
    /\ evalResult = "none"
    /\ rules_file = <<rules>>

NextTag == SendDiscordAlertCall

SpecTag == InitTag /\ [][NextTag]_vars

----------------------------------------------------------------------------
(* Events only: update_timeframe_state called directly and by the pipeline *)

NextEvents ==
    \/ UpdateTimeframeStateCall
    \/ UpdateSystemStateCall

SpecEvents == Init /\ [][NextEvents]_vars

----------------------------------------------------------------------------
(* The inbound pipeline as the only writer of the stores *)

NextInbound == UpdateSystemStateCall

SpecInbound == Init /\ [][NextInbound]_vars

----------------------------------------------------------------------------
(* Timeframe hierarchy calls *)

\* the labels get_next_higher_timeframe is called with: the hierarchy in both
\* cases, unknown labels, and a missing timeframe
HierarchyInputs ==
    {"1MIN", "5MIN", "15MIN", "30MIN", "1HR", "2HR", "4HR", "1DAY",
     "1min", "5min", "15min", "30min", "1hr", "2hr", "4hr", "1day",
     "bogus", "BOGUS", None}

GetNextHigherTimeframeCall ==
    /\ Len(nextHigherCalls) < MaxCalls
    /\ \E tf \in HierarchyInputs :
          nextHigherCalls' = Append(nextHigherCalls,
                                    [tf |-> tf, ret |-> get_next_higher_timeframe(tf)])
    /\ UNCHANGED <<storeVars, recoveryVars, engineVars, toggleVars, pipelineVars,
                   concVars, configVars, jobVars>>

NextHierarchy == GetNextHigherTimeframeCall

SpecHierarchy == Init /\ [][NextHierarchy]_vars

----------------------------------------------------------------------------
(* Claims about the State Service *)

IsUpdateCall(op) == op.op \in {"update_timeframe_state", "update_system_state"}

SameCall(a, b) ==
    /\ a.op = b.op
    /\ a.symbol = b.symbol
    /\ a.timeframe = b.timeframe
    /\ a.crossover_type = b.crossover_type
    /\ a.direction = b.direction

\* the status / price / timestamp of an indicator in a row
StatusOf(row, crossover_type) ==
    IF crossover_type = "ema" THEN row.ema_status ELSE row.macd_status
PriceOf(row, crossover_type) ==
    IF crossover_type = "ema" THEN row.last_ema_price ELSE row.last_macd_price
UpdateTimeOf(row, crossover_type) ==
    IF crossover_type = "ema" THEN row.last_ema_update ELSE row.last_macd_update
OtherIndicator(crossover_type) == IF crossover_type = "ema" THEN "macd" ELSE "ema"

C2_OtherIndicatorUntouched ==
    [][(IsUpdateCall(lastOp') /\ lastOp'.ret = "True")
       => LET before == get_timeframe_state(timeframe_states, lastOp'.symbol,
                                            lastOp'.timeframe)
              after == get_timeframe_state(timeframe_states', lastOp'.symbol,
                                           lastOp'.timeframe)
              other == OtherIndicator(lastOp'.crossover_type)
          IN  /\ after # <<>>
              /\ IF before # <<>>
                 THEN /\ StatusOf(after[1], other) = StatusOf(before[1], other)
                      /\ PriceOf(after[1], other) = PriceOf(before[1], other)
                      /\ UpdateTimeOf(after[1], other) = UpdateTimeOf(before[1], other)
                 ELSE /\ StatusOf(after[1], other) = "UNKNOWN"
                      /\ PriceOf(after[1], other) = None
                      /\ UpdateTimeOf(after[1], other) = NoTime]_vars

\* C2 witness: an EMA update of a row whose MACD side had been recorded at an
\* earlier time
C2_Witness ==
    /\ lastOp.op = "update_timeframe_state"
    /\ lastOp.ret = "True"
    /\ lastOp.crossover_type = "ema"
    /\ LET row == get_timeframe_state(timeframe_states, lastOp.symbol, lastOp.timeframe)
       IN  /\ row # <<>>
           /\ row[1].macd_status = "BEARISH"
           /\ row[1].last_macd_price = "450.0"
           /\ row[1].last_macd_update # NoTime
           /\ row[1].last_macd_update # row[1].last_ema_update

\* C3: the table holds at most one row per (symbol, timeframe), and no call of
\* update_timeframe_state, update_system_state, ensure_symbol_exists,
\* bootstrap_from_history or set_metadata removes a row.
C3_OneRowPerPair ==
    /\ [](\A i, j \in DOMAIN timeframe_states :
            (/\ timeframe_states[i].symbol = timeframe_states[j].symbol
             /\ timeframe_states[i].timeframe = timeframe_states[j].timeframe) => i = j)
    /\ [][\A i \in DOMAIN timeframe_states :
            RowsWhere(timeframe_states', timeframe_states[i].symbol,
                      timeframe_states[i].timeframe) # {}]_vars

\* C3 witness: a placeholder row and a row made by an event, after a bootstrap
C3_Witness ==
    /\ lastOp.op = "bootstrap_from_history"
    /\ Len(timeframe_states) = 2
    /\ \E i \in DOMAIN timeframe_states :
          /\ timeframe_states[i].ema_status = "UNKNOWN"
          /\ timeframe_states[i].macd_status = "UNKNOWN"
    /\ state_history # <<>>

\* C4: state_history is append-only: after every call the history before the
\* call is a prefix of the history after it.
C4_HistoryAppendOnly ==
    [][IsPrefix(state_history, state_history')]_vars

\* C4 witness: two records of the same key, then a bootstrap
C4_Witness ==
    /\ Len(state_history) = 2
    /\ state_history[1].symbol = state_history[2].symbol
    /\ state_history[1].timeframe = state_history[2].timeframe
    /\ state_history[1].crossover_type = state_history[2].crossover_type
    /\ lastOp.op = "bootstrap_from_history"

\* the part of get_all_states the recovery claim compares
Comparable(states) ==
    [tf \in DOMAIN states |->
        [ema_status |-> states[tf].ema_status, macd_status |-> states[tf].macd_status,
         last_ema_price |-> states[tf].last_ema_price,
         last_macd_price |-> states[tf].last_macd_price]]

\* C5 as stated, for the snapshots whose every row has a recorded event: after
\* the wipe and bootstrap_from_history, get_all_states equals the snapshot taken
\* before the wipe (same timeframes, statuses and last prices).
C5_RecoveryEquivalence ==
    (/\ phase = "recovered"
     /\ \A tf \in DOMAIN snapshot :
           \E i \in DOMAIN state_history :
              /\ state_history[i].symbol = "SPY"
              /\ state_history[i].timeframe = tf)
    => Comparable(get_all_states(timeframe_states, "SPY")) = Comparable(snapshot)


----------------------------------------------------------------------------
(* Claims about the Confluence Rule Engine *)

Evaluated == evalResult # "none"

\* positions in rules of the rules get_applicable_rules keeps for the event
ApplicableIdx == {i \in DOMAIN rules : RuleApplies(rules[i], parsed_data)}

\* positions of the applicable rules whose requirements are all met
PassingIdx ==
    {i \in ApplicableIdx : _check_rule_requirements(rules[i], parsed_data, current_states)}

\* C6: when at least one enabled rule's trigger matches the event and no
\* matching rule has all its requirements satisfied, evaluate_alert returns
\* False (BLOCK).  Stated for the events whose evaluation raises no fault.
C6_StrictFail ==
    (Evaluated /\ ~EventFaults(parsed_data) /\ ApplicableIdx # {} /\ PassingIdx = {})
    => evalResult = "False"

\* C6 witness: a matching rule with an unmet requirement, and the alert blocked
C6_Witness ==
    /\ evalResult = "False"
    /\ ApplicableIdx # {}
    /\ PassingIdx = {}
    /\ "15MIN" \in DOMAIN current_states

\* C7: when no enabled rule's trigger matches the event (the empty rule list
\* included), evaluate_alert returns True (ALLOW).
C7_FailOpen ==
    (Evaluated /\ ApplicableIdx = {}) => evalResult = "True"

\* C7 witness: rules are configured, none applies to the event, the alert passes
C7_Witness ==
    /\ evalResult = "True"
    /\ ~EventFaults(parsed_data)
    /\ rules # <<>>
    /\ \E i \in DOMAIN rules : Get(rules[i], "enabled", TRUE)
    /\ ApplicableIdx = {}

\* C8: when some matching rule passes, the first such rule in list order
\* decides: evaluate_alert returns True iff its action is ALLOW, whatever the
\* rules after it say.
C8_FirstPassingRuleDecides ==
    (Evaluated /\ ~EventFaults(parsed_data) /\ PassingIdx # {})
    => evalResult = PyBool(Get(rules[Min(PassingIdx)], "action", "ALLOW") = "ALLOW")

\* C8 witness: a passing BLOCK rule stands before a passing ALLOW rule and the
\* alert is blocked
C8_Witness ==
    /\ evalResult = "False"
    /\ \E i, j \in PassingIdx :
          /\ i < j
          /\ i = Min(PassingIdx)
          /\ Get(rules[i], "action", "ALLOW") = "BLOCK"
          /\ Get(rules[j], "action", "ALLOW") = "ALLOW"

\* the event's fields the trigger is compared with
EventField(pd, field) ==
    CASE field = "timeframe" -> Get(pd, "timeframe", "")
      [] field = "crossover_type" -> AlertCrossoverType(pd)
      [] field = "direction" -> Get(pd, "macd_direction", Get(pd, "ema_direction", ""))

\* C9's matching: enabled, and every trigger field is "any" or equals the
\* event's field once both are case-normalized
TakesPartPerClaim(rule, pd) ==
    /\ Get(rule, "enabled", TRUE)
    /\ \A field \in {"timeframe", "crossover_type", "direction"} :
          \/ Get(rule.trigger, field, "any") = "any"
          \/ Upper(Lower(Get(rule.trigger, field, "any"))) = Upper(Lower(EventField(pd, field)))

\* the rule list without its disabled rules
EnabledOnly(rs) ==
    LET Keep(rule) == Get(rule, "enabled", TRUE)
    IN  SelectSeq(rs, Keep)

\* C9 as stated: a rule takes part in the evaluation iff it is enabled and each
\* trigger field is "any" or equals the event's field after case normalization
\* (a trigger direction "bullish" matches a bullish event); and removing the
\* disabled rules does not change the result.
C9_TriggerMatching ==
    (Evaluated /\ ~EventFaults(parsed_data))
    => /\ \A i \in DOMAIN rules :
            (i \in ApplicableIdx) <=> TakesPartPerClaim(rules[i], parsed_data)
       /\ evalResult = PyBool(evaluate_alert(EnabledOnly(rules), parsed_data, current_states))

\* the successor in the fixed order, as a table
SuccessorTable(tf) ==
    CASE tf = "1MIN" -> "5MIN"
      [] tf = "5MIN" -> "15MIN"
      [] tf = "15MIN" -> "30MIN"
      [] tf = "30MIN" -> "1HR"
      [] tf = "1HR" -> "2HR"
      [] tf = "2HR" -> "4HR"
      [] tf = "4HR" -> "1DAY"
      [] OTHER -> None

\* C10's satisfaction of a requirement
SatisfiedPerClaim(requirement, pd, states) ==
    LET target == IF requirement.timeframe = "next_higher"
                  THEN SuccessorTable(Upper(pd.timeframe))
                  ELSE requirement.timeframe
        expected == IF requirement.must_be = "same_direction"
                    THEN Upper(Get(pd, "macd_direction", Get(pd, "ema_direction", "")))
                    ELSE Upper(requirement.must_be)
    IN  /\ target # None
        /\ target \in DOMAIN states
        /\ requirement.check \in DOMAIN states[target]
        /\ states[target][requirement.check] = expected

\* C10: a requirement is satisfied iff its target timeframe resolves (a literal
\* label, or the hierarchy successor of the event's timeframe for next_higher),
\* the snapshot has a state for it and the named status field equals the
\* expected value (the event's direction for same_direction); a next_higher
\* requirement fails when the event's timeframe is 1DAY or outside the
\* hierarchy (or absent); a requirement fails when the target has no state; and
\* a rule passes iff all its requirements are satisfied.
C10_RequirementSatisfaction ==
    Evaluated
    => \A i \in DOMAIN rules :
          LET requirements == Get(rules[i], "requirements", <<>>)
              Check(q) == _check_single_requirement(q, parsed_data, current_states, "SPY")
          IN  /\ \A k \in DOMAIN requirements :
                    LET q == requirements[k]
                    IN  /\ Check(q) <=> SatisfiedPerClaim(q, parsed_data, current_states)
                        /\ (/\ q.timeframe = "next_higher"
                            /\ Upper(parsed_data.timeframe) \in {"1DAY", "BOGUS", None})
                           => ~Check(q)
                        /\ current_states = [tf \in {} |-> None] => ~Check(q)
              /\ _check_rule_requirements(rules[i], parsed_data, current_states)
                    <=> \A k \in DOMAIN requirements :
                            SatisfiedPerClaim(requirements[k], parsed_data, current_states)

\* C10 witness: a rule with two requirements, one next_higher and one literal,
\* both satisfied, decided the evaluation
C10_Witness ==
    /\ Evaluated
    /\ PassingIdx # {}
    /\ Len(rules[Min(PassingIdx)].requirements) = 2
    /\ evalResult = "False"


\* C11: when the only applicable rule is "EMA confluence with next higher EMA",
\* an EMA event of direction d on a timeframe that has a next-higher timeframe
\* nh is allowed iff the snapshot's EMA status of nh equals d.
C11_EmaConfluence ==
    LET nh == SuccessorTable(Upper(parsed_data.timeframe))
    IN  (/\ Evaluated
         /\ ~EventFaults(parsed_data)
         /\ ApplicableIdx # {}
         /\ \A i \in ApplicableIdx : rules[i] = DefaultRules[2]
         /\ parsed_data.action = "moving_average_crossover"
         /\ nh # None)
        => (evalResult = "True"
              <=> /\ nh \in DOMAIN current_states
                  /\ current_states[nh].ema_status = Upper(parsed_data.ema_direction))

\* C11 witness: EMA is BULLISH on 15MIN and BEARISH on 5MIN (the state after a
\* bearish 5MIN event was recorded), and the bearish 5MIN EMA event was blocked
\* by the EMA confluence rule
C11_Witness ==
    /\ evalResult = "False"
    /\ rules = <<DefaultRules[2]>>
    /\ parsed_data.action = "moving_average_crossover"
    /\ parsed_data.timeframe = "5MIN"
    /\ parsed_data.ema_direction = "bearish"
    /\ DOMAIN current_states = {"5MIN", "15MIN"}
    /\ current_states["15MIN"].ema_status = "BULLISH"
    /\ current_states["5MIN"].ema_status = "BEARISH"

\* whether evaluate_alert(rs, pd, states) raised a fault somewhere: in
\* get_applicable_rules, or in a requirement check it made (the requirements of
\* a rule are checked up to the first unmet one, the rules up to the first
\* passing one)
FaultRaised(rs, pd, states) ==
    \/ EventFaults(pd)
    \/ LET applicable_rules == get_applicable_rules(rs, pd)
           passing == {i \in DOMAIN applicable_rules :
                          _check_rule_requirements(applicable_rules[i], pd, states)}
           last == IF passing = {} THEN Len(applicable_rules) ELSE Min(passing)
       IN  \E i \in 1 .. last :
              LET requirements == Get(applicable_rules[i], "requirements", <<>>)
              IN  \E k \in DOMAIN requirements :
                     /\ \A j \in 1 .. (k - 1) :
                           _check_single_requirement(requirements[j], pd, states, "SPY")
                     /\ RequirementFaults(requirements[k], pd, states)

\* C12 as stated: whenever a fault is raised while an event is evaluated, also
\* while a requirement of a matching rule is checked, evaluate_alert returns
\* True.
C12_FaultAllows ==
    (Evaluated /\ FaultRaised(rules, parsed_data, current_states))
    => evalResult = "True"

----------------------------------------------------------------------------
(* Claims about the Toggle Service *)

\* the statements of the last toggle call succeeded
LastStatementOk == StatementOk(db_tables, lastToggle.ok)

\* C14: is_enabled(symbol, tag) returns True whenever the table holds no entry
\* for (symbol, tag), whatever entries other symbols and other tags have
C14_DefaultEnabled ==
    (/\ lastToggle.op = "is_enabled"
     /\ <<Upper(lastToggle.symbol), lastToggle.tag>> \notin DOMAIN alert_toggles)
    => lastToggle.ret = TRUE

\* an unconfigured tag looked up while another tag of the same symbol and a tag
\* of another symbol are disabled
C14_Witness ==
    /\ lastToggle.op = "is_enabled"
    /\ lastToggle.symbol = "spy"
    /\ lastToggle.tag = "NEWTAG"
    /\ LastStatementOk
    /\ lastToggle.ret = TRUE
    /\ \E k \in DOMAIN alert_toggles : k[1] = "SPY" /\ ~alert_toggles[k]
    /\ \E k \in DOMAIN alert_toggles : k[1] = "QQQ" /\ ~alert_toggles[k]

\* C15: is_enabled looks the tag up in exact case, then upper-cased, then
\* answers True; so "c5" is disabled when only "C5" is stored as disabled
C15_LookupOrder ==
    (lastToggle.op = "is_enabled" /\ LastStatementOk)
    => LET sym == Upper(lastToggle.symbol)
           exact == <<sym, lastToggle.tag>>
           upper == <<sym, Upper(lastToggle.tag)>>
       IN  lastToggle.ret = IF exact \in DOMAIN alert_toggles THEN alert_toggles[exact]
                            ELSE IF upper \in DOMAIN alert_toggles THEN alert_toggles[upper]
                            ELSE TRUE

\* the key the claims give a tag: Call.. and Put.. verbatim, the rest upper-cased
ExpectedKey(tag) ==
    CASE tag = "CALL1H" -> "CALL1H"
      [] tag = "PUT1H" -> "PUT1H"
      [] tag = "c5" -> "C5"
      [] tag = "C5" -> "C5"
      [] tag = "Call5" -> "Call5"
      [] tag = "CALL5" -> "CALL5"
      [] tag = "NEWTAG" -> "NEWTAG"

\* the entries of an update dict that carry a boolean and are stored under key
StoringIdx(updates, key) ==
    {i \in DOMAIN updates : updates[i][2] \in {"True", "False"}
                            /\ ExpectedKey(updates[i][1]) = key}

\* the value the last such entry carries
LastValue(updates, key) ==
    LET idx == StoringIdx(updates, key)
        last == CHOOSE i \in idx : \A j \in idx : j <= i
    IN  updates[last][2] = "True"

\* C16: a set_many call whose statements succeed stores every boolean-valued
\* tag under its normalized key (Call.. and Put.. verbatim, the rest
\* upper-cased) and leaves every other entry, of this symbol and of the
\* others, as it was
C16_SetManyStoresNormalized ==
    [][(lastToggle'.op = "set_many" /\ StatementOk(db_tables', lastToggle'.ok))
       => LET sym == Upper(lastToggle'.symbol)
              ups == lastToggle'.updates
              keys == {key \in {ExpectedKey(ups[i][1]) : i \in DOMAIN ups} :
                         StoringIdx(ups, key) # {}}
          IN  /\ DOMAIN alert_toggles' = DOMAIN alert_toggles \cup ({sym} \X keys)
              /\ \A key \in keys : alert_toggles'[<<sym, key>>] = LastValue(ups, key)
              /\ \A k \in DOMAIN alert_toggles \ ({sym} \X keys) :
                    alert_toggles'[k] = alert_toggles[k]]_vars

\* set_many has stored Call5 verbatim and C5 for SPY, next to an earlier entry
\* of SPY and an entry of QQQ
C16_Witness ==
    /\ lastToggle.op = "set_many"
    /\ lastToggle.symbol = "spy"
    /\ lastToggle.updates = <<<<"Call5", "False">>, <<"C5", "True">>>>
    /\ LastStatementOk
    /\ {<<"SPY", "Call5">>, <<"SPY", "C5">>, <<"SPY", "CALL1H">>, <<"QQQ", "C5">>}
          \subseteq DOMAIN alert_toggles
    /\ alert_toggles[<<"SPY", "Call5">>] = FALSE
    /\ alert_toggles[<<"SPY", "C5">>] = TRUE
    /\ alert_toggles[<<"SPY", "CALL1H">>] = FALSE
    /\ alert_toggles[<<"QQQ", "C5">>] = FALSE

\* C17: ensure_defaults is a merge: every entry it finds keeps its value, what
\* it adds are default tags of the symbol that were missing, added as enabled
\* (all of them when its statements succeed), and a second call changes nothing
C17_EnsureDefaultsMerges ==
    [][lastToggle'.op = "ensure_defaults"
       => LET sym == Upper(lastToggle'.symbol)
              added == DOMAIN alert_toggles' \ DOMAIN alert_toggles
          IN  /\ \A k \in DOMAIN alert_toggles :
                    k \in DOMAIN alert_toggles' /\ alert_toggles'[k] = alert_toggles[k]
              /\ \A k \in added :
                    k[1] = sym /\ k[2] \in DefaultToggleTags /\ alert_toggles'[k] = TRUE
              /\ StatementOk(db_tables', lastToggle'.ok)
                    => {sym} \X DefaultToggleTags \subseteq DOMAIN alert_toggles'
              /\ (/\ lastToggle.op = "ensure_defaults"
                  /\ Upper(lastToggle.symbol) = sym
                  /\ LastStatementOk)
                    => alert_toggles' = alert_toggles
              /\ ensure_defaults(alert_toggles', lastToggle'.symbol, TRUE)
                    = ensure_defaults(alert_toggles, lastToggle'.symbol, TRUE)]_vars

\* ensure_defaults has run for QQQ on a map in which set_many had disabled
\* CALL1H: CALL1H is still disabled and the other defaults are enabled
C17_Witness ==
    /\ lastToggle.op = "ensure_defaults"
    /\ lastToggle.symbol = "QQQ"
    /\ LastStatementOk
    /\ <<"QQQ", "CALL1H">> \in DOMAIN alert_toggles
    /\ alert_toggles[<<"QQQ", "CALL1H">>] = FALSE
    /\ \A tag \in DefaultToggleTags \ {"CALL1H"} :
          <<"QQQ", tag>> \in DOMAIN alert_toggles /\ alert_toggles[<<"QQQ", tag>>]

\* C18: after a set_many call whose connection does not fail, is_enabled
\* answers, for every tag the call named, the value the call stored last for
\* it (False for QQQ CALL1H after {"CALL1H": False}), and for every other tag
\* (PUT1H) what it answered before
C18_SetManyThenIsEnabled ==
    [][(lastToggle'.op = "set_many" /\ lastToggle'.ok)
       => LET symbol == lastToggle'.symbol
              ups == lastToggle'.updates
          IN  \A t \in LookupTags :
                is_enabled(alert_toggles', symbol, t, StatementOk(db_tables', TRUE))
                  = IF StoringIdx(ups, ExpectedKey(t)) # {}
                    THEN LastValue(ups, ExpectedKey(t))
                    ELSE is_enabled(alert_toggles, symbol, t,
                                    StatementOk(db_tables, TRUE))]_vars

----------------------------------------------------------------------------
(* Claims about input validation and the timeframe hierarchy *)

\* C19: update_timeframe_state called with an indicator outside {ema, macd} or
\* a direction outside {BULLISH, BEARISH}, after case normalization, returns
\* False and leaves every timeframe_states row and the history as they were
C19_InvalidInputRejected ==
    [][(/\ lastOp'.op = "update_timeframe_state"
        /\ \/ lastOp'.crossover_type \notin {"ema", "macd"}
           \/ lastOp'.direction \notin {"BULLISH", "BEARISH"})
       => /\ lastOp'.ret = "False"
          /\ timeframe_states' = timeframe_states
          /\ state_history' = state_history]_vars

\* an invalid call was made on tables that hold a row and a history entry
C19_Witness ==
    /\ lastOp.op = "update_timeframe_state"
    /\ lastOp.crossover_type = "rsi" \/ lastOp.direction = "SIDEWAYS"
    /\ lastOp.ret = "False"
    /\ timeframe_states # <<>>
    /\ state_history # <<>>

\* C20: get_next_higher_timeframe upper-cases its argument and returns the
\* label that follows it in 1MIN, 5MIN, 15MIN, 30MIN, 1HR, 2HR, 4HR, 1DAY, and
\* None for 1DAY and for a label that is not in the list; 5MIN gives 15MIN,
\* 1DAY gives None, "bogus" gives None
C20_NextHigher ==
    \A i \in DOMAIN nextHigherCalls :
        LET c == nextHigherCalls[i]
        IN  /\ c.ret = SuccessorTable(Upper(c.tf))
            /\ c.tf = "5MIN" => c.ret = "15MIN"
            /\ c.tf = "1DAY" => c.ret = None
            /\ c.tf = "bogus" => c.ret = None

\* the three calls of the example were made
C20_Witness ==
    /\ Len(nextHigherCalls) = 3
    /\ nextHigherCalls[1] = [tf |-> "5MIN", ret |-> "15MIN"]
    /\ nextHigherCalls[2] = [tf |-> "1DAY", ret |-> None]
    /\ nextHigherCalls[3] = [tf |-> "bogus", ret |-> None]

----------------------------------------------------------------------------
(* Claims about the inbound pipeline *)

\* C13: receive_sms posts an event to the webhook only if evaluate_alert was
\* called for it and returned True and is_enabled(symbol, resolved tag)
\* returned True
C13_DeliveryGate ==
    [][(lastAlert'.op = "receive_sms" /\ lastAlert'.posted /\ UNCHANGED toggleVars)
       => LET pd == lastAlert'.event
              symbol == Get(pd, "symbol", "SPY")
          IN  /\ lastAlert'.evaluated
              /\ lastAlert'.allowed = "True"
              /\ lastAlert'.toggle = "True"
              /\ evaluate_alert(rules, pd, get_all_states(timeframe_states', symbol))
              /\ is_enabled(alert_toggles, symbol, lastAlert'.tag,
                            StatementOk(db_tables, TRUE))]_vars

\* an event the engine allowed was held back at the toggle gate because its
\* resolved tag is disabled
C13_Witness ==
    /\ lastAlert.op = "receive_sms"
    /\ lastAlert.config = "open"
    /\ lastAlert.allowed = "True"
    /\ lastAlert.tag = "CALL15"
    /\ lastAlert.toggle = "False"
    /\ ~lastAlert.posted

----------------------------------------------------------------------------
(* Claims about the steps of update_timeframe_state and concurrent callers *)

\* C21: whenever a history record is appended, a row had already held, by a
\* committed write, the status the record names for its (symbol, timeframe,
\* indicator); a failure or a crash between the commit and the append loses
\* the record and never adds one for a change that was not committed
C21_CommitBeforeHistory ==
    [][state_history' # state_history
       => /\ Len(state_history') = Len(state_history) + 1
          /\ SubSeq(state_history', 1, Len(state_history)) = state_history
          /\ LET h == state_history'[Len(state_history')]
             IN  /\ <<h.symbol, h.timeframe, h.crossover_type, h.new_status>> \in everHeld
                 /\ RowsWhere(timeframe_states, h.symbol, h.timeframe) # {}]_vars

\* a caller crashed after its commit: the row is written, the history is empty
C21_Witness ==
    /\ \E p \in Callers : calls[p].ret = "crashed"
    /\ \A p \in Callers : ~InFlight(calls[p])
    /\ Len(arrivals) = 1
    /\ timeframe_states # <<>>
    /\ state_history = <<>>

\* the callers are at rest
Quiescent == \A p \in Callers : ~InFlight(calls[p])

\* the status the row of SPY 5MIN holds for an indicator, UNKNOWN without a row
StoredStatus(indicator) ==
    LET found == RowsWhere(timeframe_states, "SPY", "5MIN")
    IN  IF found = {} THEN "UNKNOWN"
        ELSE IF indicator = "ema" THEN timeframe_states[Min(found)].ema_status
        ELSE timeframe_states[Min(found)].macd_status

\* C22: two calls that ran concurrently on one (symbol, timeframe), one for EMA
\* and one for MACD, with no injected fault, both returned True and the row
\* holds both new statuses
C22_NoLostUpdate ==
    LET c1 == calls[1]
        c2 == calls[2]
    IN  (/\ c1.pc = "done" /\ c2.pc = "done"
         /\ ~c1.fault /\ ~c2.fault
         /\ c1.with = c2.seq /\ c2.with = c1.seq
         /\ c1.args[1].crossover_type # c2.args[1].crossover_type)
        => /\ c1.ret = "True"
           /\ c2.ret = "True"
           /\ StoredStatus(c1.args[1].crossover_type) = c1.args[1].direction
           /\ StoredStatus(c2.args[1].crossover_type) = c2.args[1].direction

\* the arrivals and the history records of one indicator, as directions
ArrivedDirections(indicator) ==
    LET A == SelectSeq(arrivals, LAMBDA a : a.crossover_type = indicator)
    IN  [i \in DOMAIN A |-> A[i].direction]

LoggedDirections(indicator) ==
    LET H == SelectSeq(state_history, LAMBDA h : h.crossover_type = indicator)
    IN  [i \in DOMAIN H |-> H[i].new_status]

----------------------------------------------------------------------------
(* Claims about bootstrap_from_history run again *)

\* C24: bootstrap_from_history is idempotent: a second run right after a run,
\* over the same history and with the same answers of its queries, leaves the
\* rows (statuses, prices, update times) as the first run left them, and
\* neither run appends a history record
C24_BootstrapIdempotent ==
    [][lastOp'.op = "bootstrap_from_history"
       => /\ state_history' = state_history
          /\ \A pick \in LatestPicks(state_history) :
                bootstrap_from_history(timeframe_states, state_history, pick).rows
                    = timeframe_states'
                => bootstrap_from_history(timeframe_states', state_history', pick)
                    = [rows |-> timeframe_states', hist |-> state_history']]_vars

\* a bootstrap over two records of one key with the same timestamp and
\* different statuses, with a row in the table
C24_Witness ==
    /\ lastOp.op = "bootstrap_from_history"
    /\ timeframe_states # <<>>
    /\ \E i, j \in DOMAIN state_history :
          /\ i < j
          /\ state_history[i].symbol = state_history[j].symbol
          /\ state_history[i].timeframe = state_history[j].timeframe
          /\ state_history[i].crossover_type = state_history[j].crossover_type
          /\ state_history[i].timestamp = state_history[j].timestamp
          /\ state_history[i].new_status # state_history[j].new_status

----------------------------------------------------------------------------
(* Claims about the rules file *)

\* a request for a rule the engine holds
ValidRuleRequest(op) ==
    /\ op.op \in {"enable_rule", "disable_rule"}
    /\ op.status # "404"

\* C25: after enable_rule(i) or disable_rule(i) for a valid index the engine's
\* rule i carries the new flag, and a reload of the rules file that follows
\* still shows rule i with that flag
C25_FlagPersisted ==
    [][/\ ValidRuleRequest(lastRuleOp')
          => rules'[lastRuleOp'.rule_index + 1].enabled = (lastRuleOp'.op = "enable_rule")
       /\ (/\ ValidRuleRequest(lastRuleOp)
           /\ lastRuleOp'.op = "reload_rules"
           /\ lastRuleOp'.ok)
          => /\ lastRuleOp.rule_index + 1 \in DOMAIN rules'
             /\ rules'[lastRuleOp.rule_index + 1].enabled
                    = (lastRuleOp.op = "enable_rule")]_vars

\* C26: a load that finds no rules file, and can write one, leaves the engine
\* with three rules in this order: the MACD and the EMA confluence rules,
\* enabled, each requiring the next higher timeframe's ema_status in the same
\* direction, action ALLOW, and a disabled BLOCK rule for every event with no
\* requirement; the list is in the file and a reload returns it
C26_DefaultsSynthesized ==
    [][(/\ lastRuleOp'.op \in {"load_rules", "reload_rules"}
        /\ rules_file = <<>>
        /\ lastRuleOp'.ok)
       => /\ Len(rules') = 3
          /\ rules'[1].name = "MACD confluence with next higher EMA"
          /\ rules'[1].trigger.crossover_type = "macd"
          /\ rules'[2].name = "EMA confluence with next higher EMA"
          /\ rules'[2].trigger.crossover_type = "ema"
          /\ \A i \in {1, 2} :
                /\ rules'[i].enabled
                /\ rules'[i].action = "ALLOW"
                /\ rules'[i].requirements
                      = <<[timeframe |-> "next_higher", check |-> "ema_status",
                           must_be |-> "same_direction"]>>
          /\ ~rules'[3].enabled
          /\ rules'[3].action = "BLOCK"
          /\ rules'[3].requirements = <<>>
          /\ rules'[3].trigger.crossover_type = "any"
          /\ \A i \in 1 .. 3 :
                /\ rules'[i].trigger.timeframe = "any"
                /\ rules'[i].trigger.direction = "any"
          /\ rules_file' = <<rules'>>
          /\ reload_rules(rules_file', TRUE).rules = rules']_vars

\* the constructor found no file and the defaults are loaded and written
C26_Witness ==
    /\ lastRuleOp.op = "load_rules"
    /\ ~lastRuleOp.existed
    /\ lastRuleOp.ok
    /\ Len(rules) = 3
    /\ rules_file = <<rules>>

----------------------------------------------------------------------------
(* Claims about the daily summary job *)

\* a step of the daily summary job
JobStep == lastOp'.op = "daily_summary"

\* C27, as claimed: no run of the daily summary job changes what the State
\* Service stores (rows, history, metadata)
C27_JobOnlyReads ==
    [][JobStep => UNCHANGED <<timeframe_states, state_history, system_metadata>>]_vars

\* C27, amended: a run of the daily summary job leaves timeframe_states and
\* state_history as they are; its one write is set_metadata of
\* last_daily_summary_date to the day of the run, made after
\* send_daily_ema_summaries returned, and a run skipped as a duplicate or one
\* whose send raised writes nothing
C27_JobWritesOnlyLastRunDate ==
    [][JobStep
       => /\ UNCHANGED <<timeframe_states, state_history>>
          /\ \/ system_metadata' = system_metadata
             \/ /\ lastJob'.outcome \in {"sent", "filtered", "post_failed"}
                /\ system_metadata' = [k \in DOMAIN system_metadata
                                              \cup {"last_daily_summary_date"} |->
                                          IF k = "last_daily_summary_date"
                                          THEN lastJob'.today_str
                                          ELSE system_metadata[k]]
          /\ lastJob'.outcome \in {"skipped", "failed"}
                => system_metadata' = system_metadata]_vars

\* a run that sent the summaries of a store with a row and recorded its day
C27_Witness ==
    /\ lastOp.op = "daily_summary"
    /\ lastJob.outcome = "sent"
    /\ timeframe_states # <<>>
    /\ state_history # <<>>
    /\ "last_daily_summary_date" \in DOMAIN system_metadata
    /\ system_metadata["last_daily_summary_date"] = lastJob.today_str

----------------------------------------------------------------------------
(* Claims about toggle lookups that fault *)

\* C28: an is_enabled whose lookup faults (the statement raises, the table is
\* missing) returns True, for every symbol and tag and whatever is stored
C28_LookupFaultEnabled ==
    (lastToggle.op = "is_enabled" /\ ~LastStatementOk) => lastToggle.ret = TRUE

\* a lookup on the database as init_database made it: the table alert_toggles
\* is missing, the SELECT raises and the answer is True
C28_Witness ==
    /\ lastToggle.op = "is_enabled"
    /\ "alert_toggles" \notin db_tables
    /\ lastToggle.ok
    /\ lastToggle.symbol = "QQQ"
    /\ lastToggle.tag = "CALL1H"
    /\ lastToggle.ret = TRUE

----------------------------------------------------------------------------
(* Claims about the toggle tag *)

\* the suffix of a timeframe in a tag
SuffixPerClaim(tf) ==
    CASE tf = "1MIN" -> "1"
      [] tf = "5MIN" -> "5"
      [] tf = "15MIN" -> "15"
      [] tf = "30MIN" -> "30"
      [] tf = "1HR" -> "1H"
      [] tf = "2HR" -> "2H"
      [] tf = "4HR" -> "4H"
      [] tf = "1DAY" -> "1D"
      [] tf = None -> ""
      [] OTHER -> tf

\* the stored EMA status of a timeframe of SPY, None without a row
StoredEma(tf) ==
    LET found == {i \in DOMAIN timeframe_states :
                    /\ timeframe_states[i].symbol = "SPY"
                    /\ timeframe_states[i].timeframe = tf}
    IN  IF found = {} THEN None ELSE timeframe_states[Min(found)].ema_status

\* C29: the tag at the toggle gate: for an EMA event on a timeframe with
\* suffix s, CALL+s when bullish and the next higher timeframe's stored EMA is
\* BULLISH, C+s when bullish otherwise, PUT+s when bearish and that EMA is
\* BEARISH, P+s otherwise (no row or no next higher timeframe is otherwise);
\* for a MACD event CALL or PUT followed by the suffix of the next higher
\* timeframe
C29_TagDerivation ==
    lastAlert.op = "send_discord_alert"
    => LET pd == lastAlert.event
           tf == Upper(pd.timeframe)
           higher == SuccessorTable(tf)
           status == IF higher = None THEN None ELSE StoredEma(higher)
       IN  lastAlert.tag =
             IF pd.action = "moving_average_crossover"
             THEN IF pd.ema_direction = "bullish"
                  THEN (IF status = "BULLISH" THEN "CALL" ELSE "C") \o SuffixPerClaim(tf)
                  ELSE (IF status = "BEARISH" THEN "PUT" ELSE "P") \o SuffixPerClaim(tf)
             ELSE (IF pd.macd_direction = "bullish" THEN "CALL" ELSE "PUT")
                  \o SuffixPerClaim(higher)

\* a bearish EMA event on 30MIN while 1HR is stored BEARISH: PUT30
C29_Witness ==
    /\ lastAlert.op = "send_discord_alert"
    /\ lastAlert.event.action = "moving_average_crossover"
    /\ lastAlert.event.timeframe = "30MIN"
    /\ StoredEma("1HR") = "BEARISH"
    /\ lastAlert.tag = "PUT30"

----------------------------------------------------------------------------
(* Claims about the stored status and the history *)

\* the keys (symbol, timeframe, indicator) of the rows, of the history and of
\* the calls
StatusKeys ==
    ({<<timeframe_states[i].symbol, timeframe_states[i].timeframe>> :
            i \in DOMAIN timeframe_states}
     \cup {<<state_history[i].symbol, state_history[i].timeframe>> :
            i \in DOMAIN state_history}
     \cup {<<"SPY", "5MIN">>, <<"SPY", "15MIN">>})
    \X {"ema", "macd"}

\* C30: after any sequence of update_timeframe_state calls whose history
\* appends succeed, the stored status of every (symbol, timeframe, indicator)
\* is the new_status of the key's latest history record, and it is UNKNOWN
\* (or there is no row) exactly when the key has no history record
C30_StatusIsLatestHistory ==
    \A k \in StatusKeys :
        LET found == RowsWhere(timeframe_states, k[1][1], k[1][2])
            stored == IF found = {} THEN "UNKNOWN"
                      ELSE StatusOf(timeframe_states[Min(found)], k[2])
            mine == {i \in DOMAIN state_history :
                        /\ state_history[i].symbol = k[1][1]
                        /\ state_history[i].timeframe = k[1][2]
                        /\ state_history[i].crossover_type = k[2]}
        IN  /\ (stored = "UNKNOWN") <=> (mine = {})
            /\ mine # {}
                  => \E i \in mine :
                        /\ \A j \in mine : j <= i
                        /\ stored = state_history[i].new_status

\* two records of one key with different statuses, the row holds the later one
\* and the other indicator of the row is UNKNOWN
C30_Witness ==
    /\ Len(state_history) = 2
    /\ state_history[1].crossover_type = "macd"
    /\ state_history[2].crossover_type = "macd"
    /\ state_history[1].timeframe = state_history[2].timeframe
    /\ state_history[1].new_status = "BEARISH"
    /\ state_history[2].new_status = "BULLISH"
    /\ Len(timeframe_states) = 1
    /\ timeframe_states[1].macd_status = "BULLISH"
    /\ timeframe_states[1].ema_status = "UNKNOWN"

----------------------------------------------------------------------------
(* Claims about the history the inbound pipeline writes *)

\* the records before record i that have its (symbol, timeframe, indicator)
EarlierOfKey(i) ==
    {j \in 1 .. (i - 1) : /\ state_history[j].symbol = state_history[i].symbol
                          /\ state_history[j].timeframe = state_history[i].timeframe
                          /\ state_history[j].crossover_type
                                = state_history[i].crossover_type}

----------------------------------------------------------------------------
(* Claims about what bootstrap_from_history restores *)

\* the history records of a key, and the status a table holds for it
RecordsOfKey(k) ==
    {i \in DOMAIN state_history : /\ state_history[i].symbol = k[1][1]
                                  /\ state_history[i].timeframe = k[1][2]
                                  /\ state_history[i].crossover_type = k[2]}

StatusIn(rows, k) ==
    LET found == RowsWhere(rows, k[1][1], k[1][2])
    IN  IF found = {} THEN "UNKNOWN" ELSE StatusOf(rows[Min(found)], k[2])

\* C32: after bootstrap_from_history every (symbol, timeframe, indicator) with
\* a history record holds the new_status of its most recent record, whatever
\* it held before; an indicator without a record keeps its status, and every
\* row is still there
C32_HistoryWins ==
    [][lastOp'.op = "bootstrap_from_history"
       => /\ \A k \in StatusKeys :
                IF RecordsOfKey(k) # {}
                THEN \E i \in RecordsOfKey(k) :
                        /\ \A j \in RecordsOfKey(k) : j <= i
                        /\ StatusIn(timeframe_states', k) = state_history[i].new_status
                ELSE StatusIn(timeframe_states', k) = StatusIn(timeframe_states, k)
          /\ Len(timeframe_states') >= Len(timeframe_states)
          /\ \A i \in DOMAIN timeframe_states :
                /\ timeframe_states'[i].symbol = timeframe_states[i].symbol
                /\ timeframe_states'[i].timeframe = timeframe_states[i].timeframe]_vars

----------------------------------------------------------------------------
(* Claims about UNKNOWN *)

\* C33: an indicator status that is BULLISH or BEARISH is never set back to
\* UNKNOWN by update_timeframe_state, update_system_state,
\* ensure_symbol_exists or bootstrap_from_history, and its row stays
C33_NeverBackToUnknown ==
    [][\A i \in DOMAIN timeframe_states, indicator \in {"ema", "macd"} :
          StatusOf(timeframe_states[i], indicator) # "UNKNOWN"
          => /\ i \in DOMAIN timeframe_states'
             /\ timeframe_states'[i].symbol = timeframe_states[i].symbol
             /\ timeframe_states'[i].timeframe = timeframe_states[i].timeframe
             /\ StatusOf(timeframe_states'[i], indicator) \in {"BULLISH", "BEARISH"}]_vars

\* ensure_symbol_exists called for a symbol whose 5MIN row holds a direction
\* for one indicator and UNKNOWN for the other
C33_Witness ==
    /\ lastOp.op = "ensure_symbol_exists"
    /\ \E i \in DOMAIN timeframe_states :
          /\ timeframe_states[i].timeframe = "5MIN"
          /\ timeframe_states[i].ema_status = "BEARISH"
          /\ timeframe_states[i].macd_status = "UNKNOWN"
    /\ state_history # <<>>

----------------------------------------------------------------------------
(* Claims about the order of the inbound pipeline *)

\* a step of receive_sms for an EMA or MACD event with a timeframe
CrossoverStep ==
    /\ lastAlert'.op = "receive_sms"
    /\ UNCHANGED toggleVars
    /\ EventCrossoverType(lastAlert'.event) # None
    /\ Get(lastAlert'.event, "timeframe", None) # None

EventKey(pd) == <<<<Upper(pd.symbol), Upper(pd.timeframe)>>, EventCrossoverType(pd)>>

\* C35: the state update of an EMA or MACD event is applied whatever becomes
\* of the alert: with alerts disabled, filtered by day or hour, blocked by the
\* engine or held back by its toggle, the row holds the event's direction
\* after the step and a change of status is in the history
C35_UpdateRegardless ==
    [][CrossoverStep
       => LET pd == lastAlert'.event
              was == StatusIn(timeframe_states, EventKey(pd))
          IN  /\ StatusIn(timeframe_states', EventKey(pd)) = Upper(EventDirection(pd))
              /\ lastAlert'.called <=> was # Upper(EventDirection(pd))
              /\ lastAlert'.called
                    => /\ Len(state_history') = Len(state_history) + 1
                       /\ state_history'[Len(state_history')].old_status = was
                       /\ state_history'[Len(state_history')].new_status
                             = Upper(EventDirection(pd))]_vars

\* an event recorded while alerts are disabled
C35_Witness ==
    /\ lastAlert.op = "receive_sms"
    /\ lastAlert.config = "disabled"
    /\ lastAlert.called
    /\ ~lastAlert.evaluated
    /\ state_history # <<>>
    /\ StatusIn(timeframe_states, EventKey(lastAlert.event)) = "BEARISH"

\* C36: an event that repeats the stored direction changes no state and no
\* history, and is still evaluated by the engine and, when allowed, checked at
\* the toggle gate and posted when its tag is enabled
C36_DuplicateStillDelivered ==
    [][(CrossoverStep /\ ~lastAlert'.called)
       => /\ UNCHANGED <<timeframe_states, state_history>>
          /\ lastAlert'.config \in {"no_webhook", "open"}
                => /\ lastAlert'.evaluated
                   /\ lastAlert'.allowed
                         = PyBool(evaluate_alert(rules, lastAlert'.event,
                                     get_all_states(timeframe_states,
                                                    lastAlert'.event.symbol)))
          /\ (lastAlert'.config = "open" /\ lastAlert'.allowed = "True")
                => /\ lastAlert'.toggle \in {"True", "False"}
                   /\ lastAlert'.posted <=> lastAlert'.toggle = "True"]_vars

\* the bullish 5MIN EMA event sent again after it was recorded, and posted
C36_Witness ==
    /\ lastAlert.op = "receive_sms"
    /\ ~lastAlert.called
    /\ lastAlert.event.timeframe = "5MIN"
    /\ lastAlert.event.action = "moving_average_crossover"
    /\ lastAlert.posted
    /\ \E i \in DOMAIN state_history :
          /\ state_history[i].timeframe = "5MIN"
          /\ state_history[i].crossover_type = "ema"
          /\ state_history[i].new_status = "BULLISH"

\* an evaluated EMA or MACD event whose timeframe is a label
CrossoverEvaluated ==
    /\ evalResult # "none"
    /\ AlertCrossoverType(parsed_data) \in {"ema", "macd"}
    /\ ~EventFaults(parsed_data)

\* C37: with the default rules, an EMA or MACD event on 1DAY, on a label outside
\* the hierarchy, or whose next-higher timeframe has no state in the snapshot,
\* is blocked whatever the snapshot holds
C37_NoHigherBlocked ==
    (CrossoverEvaluated /\ rules = DefaultRules)
        => LET tf == Upper(parsed_data.timeframe)
               higher == get_next_higher_timeframe(parsed_data.timeframe)
           IN  (\/ tf = "1DAY"
                \/ tf \notin {TIMEFRAME_HIERARCHY[i] : i \in DOMAIN TIMEFRAME_HIERARCHY}
                \/ higher \notin DOMAIN current_states)
                   => evalResult = "False"

\* a 1DAY event blocked although the snapshot holds a 1DAY state of its
\* direction, and a 5MIN event blocked for want of a 15MIN state
C37_Witness ==
    /\ CrossoverEvaluated
    /\ rules = DefaultRules
    /\ evalResult = "False"
    /\ \/ /\ parsed_data.timeframe = "1DAY"
          /\ "1DAY" \in DOMAIN current_states
          /\ current_states["1DAY"].ema_status = AlertDirection(parsed_data)
       \/ /\ parsed_data.timeframe = "5MIN"
          /\ "15MIN" \notin DOMAIN current_states
          /\ current_states # [tf \in {} |-> None]

\* the default rules with the catch-all rule set to `enabled`
WithCatchAll(enabled) == [DefaultRules EXCEPT ![3].enabled = enabled]

\* C39: for every EMA or MACD event and snapshot the default rules give the
\* same result with the catch-all rule enabled and disabled; where the two
\* differ, the event is of another type, allowed without and blocked with it
C39_CatchAllRedundant ==
    (evalResult # "none" /\ rules \in DefaultRuleSets)
        => LET off == evaluate_alert(WithCatchAll(FALSE), parsed_data, current_states)
               on == evaluate_alert(WithCatchAll(TRUE), parsed_data, current_states)
           IN  /\ evalResult = PyBool(IF rules[3].enabled THEN on ELSE off)
               /\ AlertCrossoverType(parsed_data) \in {"ema", "macd"} => on = off
               /\ on # off => (AlertCrossoverType(parsed_data) = "unknown" /\ off /\ ~on)

\* an EMA event allowed by its confluence rule with the catch-all enabled
C39_Witness ==
    /\ rules = WithCatchAll(TRUE)
    /\ AlertCrossoverType(parsed_data) = "ema"
    /\ ~EventFaults(parsed_data)
    /\ evalResult = "True"

\* the tags of the CALL/PUT family: CALL or PUT and a timeframe token
CallPutFamily ==
    {label \o suffix_from_timeframe_for_tag(TIMEFRAME_HIERARCHY[i]) :
        label \in {"CALL", "PUT"}, i \in DOMAIN TIMEFRAME_HIERARCHY}

\* an EMA event that reached the toggle gate of send_discord_alert
EmaAtGate ==
    /\ lastAlert.op = "receive_sms"
    /\ lastAlert.event.action = "moving_average_crossover"
    /\ lastAlert.toggle # "none"

C40_MacdRuleEnabledAtStartup ==
    lastRuleOp.op = "startup"
        => \A i \in DOMAIN rules :
              IsMacdConfluenceName(rules[i].name) => rules[i].enabled

\* a start-up that loaded a rules file holding the MACD rule disabled
C40_Witness ==
    /\ lastRuleOp.op = "startup"
    /\ lastRuleOp.ok
    /\ rules_file # <<>>
    /\ \E i \in DOMAIN rules :
          /\ IsMacdConfluenceName(rules[i].name)
          /\ ~rules_file[1][i].enabled
          /\ rules[i].enabled

============================================================================
